---- MODULE Spec2Model ----
(***************************************************************************)
(* Cost engine of va-plans: CostCalculator (src/src/calculator/            *)
(* cost_engine.py) and the benefit resolver it uses.                       *)
(*                                                                         *)
(* Representation.                                                         *)
(*  - A Python str is a sequence of one-character strings, so that rstrip, *)
(*    replace, endswith and `in` are computed character by character.      *)
(*  - A Python dict is a function; d.get(k, default) is Get(d, k, default).*)
(*    An ordered dict whose order matters (usage_profile, usage_breakdown) *)
(*    is a sequence of records with distinct keys.                         *)
(*  - Currency is fixed point: an integer number of 1/10000 dollar.  The   *)
(*    inputs (prices, copays, deductible, premium, oop_max) are whole      *)
(*    cents, i.e. multiples of CentUnits.  A coinsurance rate is a whole   *)
(*    number of percent; amount * rate is Times(amount, pct), which is     *)
(*    exact for whole-cent amounts.  round(x, 2) is Round2.                *)
(***************************************************************************)
EXTENDS Integers, Sequences, FiniteSets, TLC

VARIABLES
    usage_profile,        \* self.usage_profile: sequence of [key, quantity]
    standard_costs,       \* self.standard_costs: cost key -> unit price
    plan_data,            \* self.plan_data: field name -> value
    deductible_remaining, \* self.deductible_remaining
    deductible_paid,      \* self.deductible_paid
    pc,                   \* "idle" | "running": position in calculate_total_cost
    idx,                  \* position of the loop of calculate_usage_cost
    usage_breakdown,      \* the local usage_breakdown: sequence of [key, cost]
    results,              \* the CostResults returned so far, oldest first
    call,                 \* the apply_benefit_rule / _find_benefit_rule call made by the last step
    ret                   \* what that call returned

vars == << usage_profile, standard_costs, plan_data, deductible_remaining,
           deductible_paid, pc, idx, usage_breakdown, results, call, ret >>

-----------------------------------------------------------------------------
(* Bounds of the model *)

MaxQty == 2
MaxServices == 2
MaxRuns == 2
MaxRetries == 3
MaxPlans == 3
MaxSegments == 2

-----------------------------------------------------------------------------
(* String literals of the source *)

S_primary_care_visits ==
    << "p", "r", "i", "m", "a", "r", "y", "_", "c", "a", "r", "e", "_", "v", "i", "s", "i", "t", "s" >>
S_speech_therapy_visits ==
    << "s", "p", "e", "e", "c", "h", "_", "t", "h", "e", "r", "a", "p", "y", "_", "v", "i", "s", "i", "t", "s" >>
S_occupational_therapy_visits ==
    << "o", "c", "c", "u", "p", "a", "t", "i", "o", "n", "a", "l", "_", "t", "h", "e", "r", "a", "p", "y", "_", "v", "i", "s", "i", "t", "s" >>
S_physical_therapy_visits ==
    << "p", "h", "y", "s", "i", "c", "a", "l", "_", "t", "h", "e", "r", "a", "p", "y", "_", "v", "i", "s", "i", "t", "s" >>
S_tier_1_generics_monthly ==
    << "t", "i", "e", "r", "_", "1", "_", "g", "e", "n", "e", "r", "i", "c", "s", "_", "m", "o", "n", "t", "h", "l", "y" >>
S_speech_therapy ==
    << "s", "p", "e", "e", "c", "h", "_", "t", "h", "e", "r", "a", "p", "y" >>
S_occupational_therapy ==
    << "o", "c", "c", "u", "p", "a", "t", "i", "o", "n", "a", "l", "_", "t", "h", "e", "r", "a", "p", "y" >>
S_ot_therapy ==
    << "o", "t", "_", "t", "h", "e", "r", "a", "p", "y" >>
S_physical_therapy ==
    << "p", "h", "y", "s", "i", "c", "a", "l", "_", "t", "h", "e", "r", "a", "p", "y" >>
S_pt_therapy ==
    << "p", "t", "_", "t", "h", "e", "r", "a", "p", "y" >>
S_therapy_services ==
    << "t", "h", "e", "r", "a", "p", "y", "_", "s", "e", "r", "v", "i", "c", "e", "s" >>
S_rehabilitation_services ==
    << "r", "e", "h", "a", "b", "i", "l", "i", "t", "a", "t", "i", "o", "n", "_", "s", "e", "r", "v", "i", "c", "e", "s" >>
S_habilitation_services ==
    << "h", "a", "b", "i", "l", "i", "t", "a", "t", "i", "o", "n", "_", "s", "e", "r", "v", "i", "c", "e", "s" >>
S_generic_drug ==
    << "g", "e", "n", "e", "r", "i", "c", "_", "d", "r", "u", "g" >>
S_specialty_drug ==
    << "s", "p", "e", "c", "i", "a", "l", "t", "y", "_", "d", "r", "u", "g" >>
S_primary_care_visit ==
    << "p", "r", "i", "m", "a", "r", "y", "_", "c", "a", "r", "e", "_", "v", "i", "s", "i", "t" >>
S_speech_therapy_visit ==
    << "s", "p", "e", "e", "c", "h", "_", "t", "h", "e", "r", "a", "p", "y", "_", "v", "i", "s", "i", "t" >>
S_tier_1_generics_cost ==
    << "t", "i", "e", "r", "_", "1", "_", "g", "e", "n", "e", "r", "i", "c", "s", "_", "c", "o", "s", "t" >>
S_sfx_monthly ==
    << "_", "m", "o", "n", "t", "h", "l", "y" >>
S_sfx_cost ==
    << "_", "c", "o", "s", "t" >>
S_sfx_visits ==
    << "_", "v", "i", "s", "i", "t", "s" >>
S_sfx_generics ==
    << "_", "g", "e", "n", "e", "r", "i", "c", "s" >>
S_sfx_specialty ==
    << "_", "s", "p", "e", "c", "i", "a", "l", "t", "y" >>
S_s == << "s" >>
S_empty == << >>

-----------------------------------------------------------------------------
(* str methods *)

\* s.endswith(suffix)
EndsWith(s, suffix) ==
    /\ Len(s) >= Len(suffix)
    /\ SubSeq(s, Len(s) - Len(suffix) + 1, Len(s)) = suffix

\* s.rstrip(chars) for a one-character chars
RECURSIVE RStrip(_, _)
RStrip(s, chars) ==
    IF s # << >> /\ << s[Len(s)] >> = chars
    THEN RStrip(SubSeq(s, 1, Len(s) - 1), chars)
    ELSE s

\* s.replace(old, new): every non-overlapping occurrence, left to right
RECURSIVE Replace(_, _, _)
Replace(s, old, new) ==
    IF Len(s) < Len(old) THEN s
    ELSE IF SubSeq(s, 1, Len(old)) = old
         THEN new \o Replace(SubSeq(s, Len(old) + 1, Len(s)), old, new)
         ELSE << s[1] >> \o Replace(Tail(s), old, new)

\* sub in s
Contains(s, sub) ==
    \E i \in 1..(Len(s) - Len(sub) + 1) : SubSeq(s, i, i + Len(sub) - 1) = sub

\* d.get(k, default)
Get(d, k, default) == IF k \in DOMAIN d THEN d[k] ELSE default

\* str.lower() on the type tags the model uses
Lower(t) ==
    CASE t = "Copay" -> "copay"
      [] t = "Coinsurance" -> "coinsurance"
      [] OTHER -> t

-----------------------------------------------------------------------------
(* Fixed-point currency *)

CentUnits == 100

\* amount * rate, the rate given in percent
Times(amount, pct) == (amount * pct) \div 100

\* round(x, 2): to the nearest cent, a tie to the even cent
Round2(x) ==
    LET q == x \div CentUnits
        r == x % CentUnits
    IN  IF 2 * r < CentUnits THEN q * CentUnits
        ELSE IF 2 * r > CentUnits THEN (q + 1) * CentUnits
        ELSE IF q % 2 = 0 THEN q * CentUnits ELSE (q + 1) * CentUnits

Min(a, b) == IF a < b THEN a ELSE b

RECURSIVE SumCosts(_)
SumCosts(seq) == IF seq = << >> THEN 0 ELSE seq[1].cost + SumCosts(Tail(seq))

-----------------------------------------------------------------------------
(* Benefit rules: {"type": ..., "value": ...} *)

Copay(amount) == [type |-> "copay", value |-> amount]
Coinsurance(pct) == [type |-> "coinsurance", value |-> pct]
NotCovered == [type |-> "not_covered", value |-> "None"]
NoRule == << >>

PayPeriods == 26
MonthsPerYear == 12

-----------------------------------------------------------------------------
(* CostCalculator *)

\* calculate_premium_cost
calculate_premium_cost(plan) == Get(plan, "biweekly_premium", 0) * PayPeriods

\* apply_benefit_rule with one fault planted in it:
\*   "paid_market"  deductible_paid grows by the whole market cost
\*   "rate_on_total" the coinsurance rate is charged on the whole market cost
\*   "copay_deductible" a copay consumes the deductible
\*   "sign"         the deductible portion is added to deductible_remaining
\*   "met_full"     once the deductible is met the whole market cost is charged
\*   "unknown_full" a rule of another type charges the whole market cost
\*   "met_free"     once the deductible is met the service is free
faulty_apply(benefit_rule, market_cost, quantity, dr, dp, fault) ==
    LET Same(c) == [cost |-> c, deductible_remaining |-> dr, deductible_paid |-> dp]
    IN
    IF DOMAIN benefit_rule = {} \/ quantity <= 0 \/ market_cost <= 0
    THEN Same(0)
    ELSE
      LET benefit_type == Lower(Get(benefit_rule, "type", "copay"))
          benefit_value == Get(benefit_rule, "value", 0)
      IN
      IF benefit_type = "copay"
      THEN IF fault = "copay_deductible"
           THEN [cost |-> benefit_value * quantity,
                 deductible_remaining |-> dr - Min(benefit_value * quantity, dr),
                 deductible_paid |-> dp + Min(benefit_value * quantity, dr)]
           ELSE Same(benefit_value * quantity)
      ELSE IF benefit_type = "coinsurance"
      THEN
        LET total_market_cost == market_cost * quantity IN
        IF dr > 0
        THEN
          LET deductible_portion == Min(total_market_cost, dr)
              remaining_market_cost == total_market_cost - deductible_portion
              coinsurance_portion ==
                  IF fault = "rate_on_total"
                  THEN Times(total_market_cost, benefit_value)
                  ELSE Times(remaining_market_cost, benefit_value)
          IN  [cost |-> deductible_portion + coinsurance_portion,
               deductible_remaining |->
                  IF fault = "sign" THEN dr + deductible_portion
                  ELSE dr - deductible_portion,
               deductible_paid |->
                  IF fault = "paid_market" THEN dp + total_market_cost
                  ELSE dp + deductible_portion]
        ELSE IF fault = "met_full" THEN Same(total_market_cost)
        ELSE IF fault = "met_free" THEN Same(0)
        ELSE Same(Times(total_market_cost, benefit_value))
      ELSE IF fault = "unknown_full" THEN Same(market_cost * quantity)
      ELSE Same(0)

apply_benefit_rule_paid_market(benefit_rule, market_cost, quantity, dr, dp) ==
    faulty_apply(benefit_rule, market_cost, quantity, dr, dp, "paid_market")

apply_benefit_rule_rate_on_total(benefit_rule, market_cost, quantity, dr, dp) ==
    faulty_apply(benefit_rule, market_cost, quantity, dr, dp, "rate_on_total")

apply_benefit_rule_copay_deductible(benefit_rule, market_cost, quantity, dr, dp) ==
    faulty_apply(benefit_rule, market_cost, quantity, dr, dp, "copay_deductible")

apply_benefit_rule_sign(benefit_rule, market_cost, quantity, dr, dp) ==
    faulty_apply(benefit_rule, market_cost, quantity, dr, dp, "sign")

apply_benefit_rule_met_full(benefit_rule, market_cost, quantity, dr, dp) ==
    faulty_apply(benefit_rule, market_cost, quantity, dr, dp, "met_full")

apply_benefit_rule_unknown_full(benefit_rule, market_cost, quantity, dr, dp) ==
    faulty_apply(benefit_rule, market_cost, quantity, dr, dp, "unknown_full")

apply_benefit_rule_met_free(benefit_rule, market_cost, quantity, dr, dp) ==
    faulty_apply(benefit_rule, market_cost, quantity, dr, dp, "met_free")

\* apply_benefit_rule: the cost returned and the deductible state it leaves,
\* from the deductible state dr, dp it is called in
apply_benefit_rule(benefit_rule, market_cost, quantity, dr, dp) ==
    LET Same(c) == [cost |-> c, deductible_remaining |-> dr, deductible_paid |-> dp]
    IN
    IF DOMAIN benefit_rule = {} \/ quantity <= 0 \/ market_cost <= 0
    THEN Same(0)
    ELSE
      LET benefit_type == Lower(Get(benefit_rule, "type", "copay"))
          benefit_value == Get(benefit_rule, "value", 0)
      IN
      IF benefit_type = "copay"
      THEN Same(benefit_value * quantity)
      ELSE IF benefit_type = "coinsurance"
      THEN
        LET total_market_cost == market_cost * quantity IN
        IF dr > 0
        THEN
          LET deductible_portion == Min(total_market_cost, dr)
              remaining_market_cost == total_market_cost - deductible_portion
              coinsurance_portion == Times(remaining_market_cost, benefit_value)
          IN  [cost |-> deductible_portion + coinsurance_portion,
               deductible_remaining |-> dr - deductible_portion,
               deductible_paid |-> dp + deductible_portion]
        ELSE Same(Times(total_market_cost, benefit_value))
      ELSE Same(0)

\* the fallback table with habilitation_services tried before
\* rehabilitation_services, and therapy_services before ot_therapy / pt_therapy
therapy_fallbacks_reordered ==
    (S_speech_therapy_visits :>
        << S_speech_therapy, S_therapy_services,
           S_habilitation_services, S_rehabilitation_services >>)
    @@ (S_occupational_therapy_visits :>
        << S_occupational_therapy, S_therapy_services, S_ot_therapy,
           S_rehabilitation_services, S_habilitation_services >>)
    @@ (S_physical_therapy_visits :>
        << S_physical_therapy, S_therapy_services, S_pt_therapy,
           S_rehabilitation_services, S_habilitation_services >>)

\* _find_benefit_rule: the fallback table of the therapy families
therapy_fallbacks ==
    (S_speech_therapy_visits :>
        << S_speech_therapy, S_therapy_services,
           S_rehabilitation_services, S_habilitation_services >>)
    @@ (S_occupational_therapy_visits :>
        << S_occupational_therapy, S_ot_therapy, S_therapy_services,
           S_rehabilitation_services, S_habilitation_services >>)
    @@ (S_physical_therapy_visits :>
        << S_physical_therapy, S_pt_therapy, S_therapy_services,
           S_rehabilitation_services, S_habilitation_services >>)

\* the first key of the sequence keys that the dict has, << >> when none
RECURSIVE FirstIn(_, _)
FirstIn(keys, benefit_rules) ==
    IF keys = << >> THEN << >>
    ELSE IF keys[1] \in DOMAIN benefit_rules THEN << keys[1] >>
    ELSE FirstIn(Tail(keys), benefit_rules)

\* _find_benefit_rule passing over the rules that are neither copay nor
\* coinsurance
find_benefit_rule_usable(usage_key, benefit_rules) ==
    LET usable == { k \in DOMAIN benefit_rules :
                      Lower(Get(benefit_rules[k], "type", "copay"))
                          \in { "copay", "coinsurance" } }
        Found(k) == [found |-> TRUE, rule |-> benefit_rules[k]]
        base_key == Replace(usage_key, S_sfx_visits, S_empty)
        fallback == IF usage_key \in DOMAIN therapy_fallbacks
                    THEN FirstIn(therapy_fallbacks[usage_key],
                                 [k \in usable |-> benefit_rules[k]])
                    ELSE << >>
    IN
    IF usage_key \in usable THEN Found(usage_key)
    ELSE IF base_key \in usable THEN Found(base_key)
    ELSE IF fallback # << >> THEN Found(fallback[1])
    ELSE IF Contains(usage_key, S_sfx_generics) /\ S_generic_drug \in usable
    THEN Found(S_generic_drug)
    ELSE IF Contains(usage_key, S_sfx_specialty) /\ S_specialty_drug \in usable
    THEN Found(S_specialty_drug)
    ELSE [found |-> FALSE, rule |-> NoRule]

\* _find_benefit_rule: [found |-> FALSE] is None
find_benefit_rule(usage_key, benefit_rules) ==
    LET Found(k) == [found |-> TRUE, rule |-> benefit_rules[k]]
        base_key == Replace(usage_key, S_sfx_visits, S_empty)
        fallback == IF usage_key \in DOMAIN therapy_fallbacks
                    THEN FirstIn(therapy_fallbacks[usage_key], benefit_rules)
                    ELSE << >>
    IN
    IF usage_key \in DOMAIN benefit_rules THEN Found(usage_key)
    ELSE IF base_key \in DOMAIN benefit_rules THEN Found(base_key)
    ELSE IF fallback # << >> THEN Found(fallback[1])
    ELSE IF Contains(usage_key, S_sfx_generics) /\ S_generic_drug \in DOMAIN benefit_rules
    THEN Found(S_generic_drug)
    ELSE IF Contains(usage_key, S_sfx_specialty) /\ S_specialty_drug \in DOMAIN benefit_rules
    THEN Found(S_specialty_drug)
    ELSE [found |-> FALSE, rule |-> NoRule]

\* calculate_usage_cost: the standard_costs key of a usage key
cost_key_of(usage_key) ==
    LET cost_key == RStrip(usage_key, S_s) IN
    IF EndsWith(cost_key, S_sfx_monthly)
    THEN Replace(cost_key, S_sfx_monthly, S_sfx_cost)
    ELSE cost_key

\* quantity_of without the scaling of the monthly keys
quantity_of_unscaled(usage_key, quantity) == quantity

\* quantity_of testing the usage key itself for the ending _monthly
quantity_of_endswith(usage_key, quantity) ==
    IF EndsWith(usage_key, S_sfx_monthly)
    THEN quantity * MonthsPerYear
    ELSE quantity

\* calculate_usage_cost: the quantity it passes on, monthly keys times 12
quantity_of(usage_key, quantity) ==
    IF EndsWith(RStrip(usage_key, S_s), S_sfx_monthly)
    THEN quantity * MonthsPerYear
    ELSE quantity

\* `not benefit_rule`: None and the empty dict are both falsy
Falsy(found) == ~found.found \/ DOMAIN found.rule = {}

\* usage_step with one fault.  "norule_full": a service without a rule is
\* charged its whole market cost.  "default_price": a service without a
\* price is priced at one cent.  "norule_skip": a service without a rule
\* gets no entry.
faulty_usage_step(usage_key, quantity, costs, benefit_rules, dr, dp, fault) ==
    LET market_cost == Get(costs, cost_key_of(usage_key),
                           IF fault = "default_price" THEN CentUnits ELSE 0)
        qty == quantity_of(usage_key, quantity)
        found == find_benefit_rule(usage_key, benefit_rules)
        Same(kind, cost) == [kind |-> kind, cost |-> cost, rule |-> NoRule,
                             market_cost |-> market_cost, quantity |-> qty,
                             deductible_remaining |-> dr, deductible_paid |-> dp]
        applied == apply_benefit_rule(found.rule, market_cost, qty, dr, dp)
    IN
    IF quantity <= 0 THEN Same("skip", 0)
    ELSE IF market_cost <= 0 THEN Same("skip", 0)
    ELSE IF Falsy(found)
    THEN Same(IF fault = "norule_skip" THEN "skip" ELSE "norule",
              IF fault = "norule_full" THEN market_cost * qty ELSE 0)
    ELSE [kind |-> "applied", cost |-> applied.cost, rule |-> found.rule,
          market_cost |-> market_cost, quantity |-> qty,
          deductible_remaining |-> applied.deductible_remaining,
          deductible_paid |-> applied.deductible_paid]

usage_step_norule_full(usage_key, quantity, costs, benefit_rules, dr, dp) ==
    faulty_usage_step(usage_key, quantity, costs, benefit_rules, dr, dp, "norule_full")

usage_step_norule_skip(usage_key, quantity, costs, benefit_rules, dr, dp) ==
    faulty_usage_step(usage_key, quantity, costs, benefit_rules, dr, dp, "norule_skip")

usage_step_default_price(usage_key, quantity, costs, benefit_rules, dr, dp) ==
    faulty_usage_step(usage_key, quantity, costs, benefit_rules, dr, dp, "default_price")

\* calculate_usage_cost: one iteration of the loop, for the item
\* (usage_key, quantity), from the deductible state dr, dp.
\* kind: "skip" (continue, no entry), "norule" (entry 0.0), "applied".
usage_step(usage_key, quantity, costs, benefit_rules, dr, dp) ==
    LET market_cost == Get(costs, cost_key_of(usage_key), 0)
        qty == quantity_of(usage_key, quantity)
        found == find_benefit_rule(usage_key, benefit_rules)
        Same(kind) == [kind |-> kind, cost |-> 0, rule |-> NoRule,
                       market_cost |-> market_cost, quantity |-> qty,
                       deductible_remaining |-> dr, deductible_paid |-> dp]
        applied == apply_benefit_rule(found.rule, market_cost, qty, dr, dp)
    IN
    IF quantity <= 0 THEN Same("skip")
    ELSE IF market_cost <= 0 THEN Same("skip")
    ELSE IF Falsy(found) THEN Same("norule")
    ELSE [kind |-> "applied", cost |-> applied.cost, rule |-> found.rule,
          market_cost |-> market_cost, quantity |-> qty,
          deductible_remaining |-> applied.deductible_remaining,
          deductible_paid |-> applied.deductible_paid]

\* apply_oop_cap that compares with >= the wrong way round: never caps
apply_oop_cap_never(plan, variable_costs) == variable_costs

\* apply_oop_cap: no oop_max key means float('inf')
apply_oop_cap(plan, variable_costs) ==
    IF "oop_max" \in DOMAIN plan /\ variable_costs > plan["oop_max"]
    THEN plan["oop_max"]
    ELSE variable_costs

\* {k: round(v, 2) for k, v in usage_breakdown.items()}
RoundBreakdown(breakdown) ==
    [i \in 1..Len(breakdown) |->
        [key |-> breakdown[i].key, cost |-> Round2(breakdown[i].cost)]]

\* calculate_total_cost, from the premium on: the result dict
build_result(plan, breakdown, dp) ==
    LET premium_cost == calculate_premium_cost(plan)
        variable_cost_raw == SumCosts(breakdown)
        variable_cost_capped == apply_oop_cap(plan, variable_cost_raw)
        total_annual_cost == premium_cost + variable_cost_capped
    IN  [total_annual_cost |-> Round2(total_annual_cost),
         premium_cost |-> Round2(premium_cost),
         medical_drug_spend |-> Round2(variable_cost_capped),
         deductible_paid |-> Round2(dp),
         usage_breakdown |-> RoundBreakdown(breakdown),
         variable_cost_raw |-> Round2(variable_cost_raw)]

\* the reset left out: the deductible state is kept as it is
reset_deductible_keep(plan, dr, dp) ==
    [deductible_remaining |-> dr, deductible_paid |-> dp]

\* calculate_total_cost: the reset of the deductible tracking
reset_deductible(plan, dr, dp) ==
    [deductible_remaining |-> Get(plan, "annual_deductible", 0),
     deductible_paid |-> 0]

\* calculate_usage_cost as a whole: the loop over the items from position i
RECURSIVE calculate_usage_cost(_, _, _, _, _, _, _)
calculate_usage_cost(profile, i, costs, benefit_rules, dr, dp, breakdown) ==
    IF i > Len(profile)
    THEN [usage_breakdown |-> breakdown, deductible_remaining |-> dr,
          deductible_paid |-> dp]
    ELSE
      LET s == usage_step(profile[i].key, profile[i].quantity, costs,
                          benefit_rules, dr, dp)
      IN  calculate_usage_cost(profile, i + 1, costs, benefit_rules,
              s.deductible_remaining, s.deductible_paid,
              IF s.kind = "skip" THEN breakdown
              ELSE Append(breakdown, [key |-> profile[i].key, cost |-> s.cost]))

\* calculate_total_cost as a whole, called in the deductible state dr, dp
calculate_total_cost(profile, costs, plan, dr, dp) ==
    LET fresh == reset_deductible(plan, dr, dp)
        usage == calculate_usage_cost(profile, 1, costs,
                     Get(plan, "benefit_rules", << >>),
                     fresh.deductible_remaining, fresh.deductible_paid, << >>)
    IN  build_result(plan, usage.usage_breakdown, usage.deductible_paid)

-----------------------------------------------------------------------------
(* Inputs *)

UsageKeys ==
    { S_primary_care_visits, S_speech_therapy_visits, S_tier_1_generics_monthly }

Quantities == 0..MaxQty

Entries == [key : UsageKeys, quantity : Quantities]

\* usage profiles: a dict has no key twice
Profiles ==
    { p \in UNION { [1..n -> Entries] : n \in 0..MaxServices } :
        \A i, j \in 1..Len(p) : i # j => p[i].key # p[j].key }

FullPrices ==
    (S_primary_care_visit :> 2 * CentUnits)
    @@ (S_speech_therapy_visit :> CentUnits)
    @@ (S_tier_1_generics_cost :> CentUnits)

\* no price for the monthly key, a price of 0 for speech therapy
SparsePrices ==
    (S_primary_care_visit :> 3 * CentUnits)
    @@ (S_speech_therapy_visit :> 0)

PriceTables == { FullPrices, SparsePrices }

CopayRules ==
    (S_primary_care_visits :> Copay(2 * CentUnits))
    @@ (S_speech_therapy :> Copay(3 * CentUnits))
    @@ (S_tier_1_generics_monthly :> Copay(CentUnits))

CoinsuranceRules ==
    (S_primary_care_visits :> Coinsurance(20))
    @@ (S_therapy_services :> Coinsurance(50))
    @@ (S_generic_drug :> Coinsurance(20))

MixedRules ==
    (S_primary_care_visits :> Coinsurance(50))
    @@ (S_speech_therapy_visits :> Copay(2 * CentUnits))
    @@ (S_generic_drug :> Copay(0))

GapRules ==
    (S_primary_care_visits :> NotCovered)
    @@ (S_rehabilitation_services :> Coinsurance(20))

RuleTables == { CopayRules, CoinsuranceRules, MixedRules, GapRules, << >> }

Deductibles == { 0, 3 * CentUnits }
OopMaxes == { 3 * CentUnits }
Premiums == { CentUnits }

\* plan records, with and without an oop_max
Plans ==
    { [biweekly_premium |-> b, annual_deductible |-> d, benefit_rules |-> t] :
        b \in Premiums, d \in Deductibles, t \in RuleTables }
    \cup
    { [biweekly_premium |-> b, annual_deductible |-> d, benefit_rules |-> t,
       oop_max |-> o] :
        b \in Premiums, d \in Deductibles, t \in RuleTables, o \in OopMaxes }

\* arguments of the apply_benefit_rule calls made between two calculations
BetweenRules == { Copay(2 * CentUnits), Coinsurance(50), NotCovered }
BetweenPrices == { CentUnits, 2 * CentUnits }

\* arguments of direct apply_benefit_rule calls
ApplyRules ==
    { Copay(0), Copay(2 * CentUnits), Coinsurance(0), Coinsurance(20),
      Coinsurance(50), Coinsurance(100), NotCovered, NoRule,
      [value |-> 3 * CentUnits], [type |-> "Coinsurance", value |-> 50],
      [type |-> "unknown", value |-> "None"],
      [type |-> "complex", value |-> "None"] }
ApplyPrices == { 0, CentUnits, 2 * CentUnits }

\* rule tables of the resolver runs: any subset of these keys, the rule of a
\* key telling the key
RuleKeyList ==
    << S_speech_therapy_visits, S_speech_therapy, S_therapy_services,
       S_rehabilitation_services, S_habilitation_services,
       S_occupational_therapy, S_ot_therapy, S_physical_therapy,
       S_pt_therapy, S_generic_drug,
       << "l", "a", "b", "_", "v", "i", "s", "i", "t", "s", "_", "h", "o", "m", "e" >>,
       << "l", "a", "b", "_", "h", "o", "m", "e" >> >>
RuleOfKey(i) == Copay(i * CentUnits)
ResolverTables ==
    { [k \in { RuleKeyList[i] : i \in I } |->
         RuleOfKey(CHOOSE i \in I : RuleKeyList[i] = k)] :
      I \in SUBSET (1..Len(RuleKeyList)) }
ResolverUsageKeys ==
    { S_speech_therapy_visits, S_occupational_therapy_visits,
      S_physical_therapy_visits, S_primary_care_visits,
      S_tier_1_generics_monthly,
      << "l", "a", "b", "_", "v", "i", "s", "i", "t", "s", "_", "h", "o", "m", "e", "_", "v", "i", "s", "i", "t", "s" >> }

-----------------------------------------------------------------------------
(* State machine *)

NoCall == [op |-> "none"]

\* CostCalculator.__init__
Construct(needs_profile, needs_costs, plan) ==
    /\ usage_profile = needs_profile
    /\ standard_costs = needs_costs
    /\ plan_data = plan
    /\ deductible_remaining = Get(plan, "annual_deductible", 0)
    /\ deductible_paid = 0
    /\ pc = "idle"
    /\ idx = 0
    /\ usage_breakdown = << >>
    /\ results = << >>
    /\ call = NoCall
    /\ ret = 0

Init ==
    \E p \in Profiles, c \in PriceTables, plan \in Plans : Construct(p, c, plan)

\* calculate_total_cost is entered: the reset, then the loop starts
Calculate ==
    /\ pc = "idle"
    /\ Len(results) < MaxRuns
    /\ LET fresh == reset_deductible(plan_data, deductible_remaining, deductible_paid)
       IN  /\ deductible_remaining' = fresh.deductible_remaining
           /\ deductible_paid' = fresh.deductible_paid
    /\ pc' = "running"
    /\ idx' = 1
    /\ usage_breakdown' = << >>
    /\ call' = NoCall
    /\ ret' = 0
    /\ UNCHANGED << usage_profile, standard_costs, plan_data, results >>

\* ProcessService storing the deductible that remains in the plan record
\* instead of the calculator
ProcessService_writes_plan ==
    /\ pc = "running"
    /\ idx <= Len(usage_profile)
    /\ LET item == usage_profile[idx]
           s == usage_step(item.key, item.quantity, standard_costs,
                           Get(plan_data, "benefit_rules", << >>),
                           Get(plan_data, "annual_deductible", 0), deductible_paid)
       IN  /\ plan_data' = [plan_data EXCEPT !["annual_deductible"] = s.deductible_remaining]
           /\ deductible_paid' = s.deductible_paid
           /\ usage_breakdown' =
                 IF s.kind = "skip" THEN usage_breakdown
                 ELSE Append(usage_breakdown, [key |-> item.key, cost |-> s.cost])
           /\ call' = NoCall
           /\ ret' = s.cost
    /\ idx' = idx + 1
    /\ UNCHANGED << usage_profile, standard_costs, deductible_remaining, pc, results >>

\* one iteration of the loop of calculate_usage_cost
ProcessService ==
    /\ pc = "running"
    /\ idx <= Len(usage_profile)
    /\ LET item == usage_profile[idx]
           s == usage_step(item.key, item.quantity, standard_costs,
                           Get(plan_data, "benefit_rules", << >>),
                           deductible_remaining, deductible_paid)
       IN  /\ deductible_remaining' = s.deductible_remaining
           /\ deductible_paid' = s.deductible_paid
           /\ usage_breakdown' =
                 IF s.kind = "skip" THEN usage_breakdown
                 ELSE Append(usage_breakdown, [key |-> item.key, cost |-> s.cost])
           /\ call' = IF s.kind = "applied"
                      THEN [op |-> "apply", rule |-> s.rule,
                            market_cost |-> s.market_cost, quantity |-> s.quantity,
                            d_before |-> deductible_remaining,
                            p_before |-> deductible_paid]
                      ELSE NoCall
           /\ ret' = s.cost
    /\ idx' = idx + 1
    /\ UNCHANGED << usage_profile, standard_costs, plan_data, pc, results >>

\* the loop is over: sum, cap, round, return
Finish ==
    /\ pc = "running"
    /\ idx > Len(usage_profile)
    /\ results' = Append(results,
                         build_result(plan_data, usage_breakdown, deductible_paid))
    /\ pc' = "idle"
    /\ call' = NoCall
    /\ ret' = 0
    /\ UNCHANGED << usage_profile, standard_costs, plan_data, deductible_remaining,
                    deductible_paid, idx, usage_breakdown >>

\* a caller invokes apply_benefit_rule itself, between two calculations
ApplyBetweenRuns ==
    /\ pc = "idle"
    /\ \E rule \in BetweenRules, market_cost \in BetweenPrices, quantity \in 1..MaxQty :
         LET a == apply_benefit_rule(rule, market_cost, quantity,
                                     deductible_remaining, deductible_paid)
         IN  /\ deductible_remaining' = a.deductible_remaining
             /\ deductible_paid' = a.deductible_paid
    /\ call' = NoCall
    /\ ret' = 0
    /\ UNCHANGED << usage_profile, standard_costs, plan_data, pc, idx,
                    usage_breakdown, results >>

Next == Calculate \/ ProcessService \/ Finish \/ ApplyBetweenRuns

Spec == Init /\ [][Next]_vars

-----------------------------------------------------------------------------
(* apply_benefit_rule called on its own, every call observed *)

InitApply ==
    \E plan \in { q \in Plans : q.benefit_rules = << >> } :
        Construct(<< >>, << >>, plan)

ApplyCall ==
    /\ \E rule \in ApplyRules, market_cost \in ApplyPrices, quantity \in Quantities :
         LET a == apply_benefit_rule(rule, market_cost, quantity,
                                     deductible_remaining, deductible_paid)
         IN  /\ deductible_remaining' = a.deductible_remaining
             /\ deductible_paid' = a.deductible_paid
             /\ call' = [op |-> "apply", rule |-> rule,
                         market_cost |-> market_cost, quantity |-> quantity,
                         d_before |-> deductible_remaining,
                         p_before |-> deductible_paid]
             /\ ret' = a.cost
    /\ UNCHANGED << usage_profile, standard_costs, plan_data, pc, idx,
                    usage_breakdown, results >>

NextApply == ApplyCall

SpecApply == InitApply /\ [][NextApply]_vars

-----------------------------------------------------------------------------
(* _find_benefit_rule called on its own *)

InitResolve ==
    \E t \in ResolverTables :
        Construct(<< >>, << >>, [biweekly_premium |-> 0, annual_deductible |-> 0,
                                 benefit_rules |-> t])

FindCall ==
    /\ \E usage_key \in ResolverUsageKeys :
         /\ call' = [op |-> "find", usage_key |-> usage_key]
         /\ ret' = find_benefit_rule(usage_key, plan_data.benefit_rules)
    /\ UNCHANGED << usage_profile, standard_costs, plan_data, deductible_remaining,
                    deductible_paid, pc, idx, usage_breakdown, results >>

NextResolve == FindCall

SpecResolve == InitResolve /\ [][NextResolve]_vars

-----------------------------------------------------------------------------
(* src/src/utils/service_type_mapper.py *)

Uppercase ==
    << "A", "B", "C", "D", "E", "F", "G", "H", "I", "J", "K", "L", "M",
       "N", "O", "P", "Q", "R", "S", "T", "U", "V", "W", "X", "Y", "Z" >>
Lowercase ==
    << "a", "b", "c", "d", "e", "f", "g", "h", "i", "j", "k", "l", "m",
       "n", "o", "p", "q", "r", "s", "t", "u", "v", "w", "x", "y", "z" >>
Digits == << "0", "1", "2", "3", "4", "5", "6", "7", "8", "9" >>

\* str.lower(), character by character
str_lower(s) ==
    [i \in 1..Len(s) |->
        IF \E j \in 1..Len(Uppercase) : Uppercase[j] = s[i]
        THEN Lowercase[CHOOSE j \in 1..Len(Uppercase) : Uppercase[j] = s[i]]
        ELSE s[i]]

\* c.isalnum() for the ASCII characters
isalnum(c) ==
    \/ \E j \in 1..Len(Uppercase) : Uppercase[j] = c
    \/ \E j \in 1..Len(Lowercase) : Lowercase[j] = c
    \/ \E j \in 1..Len(Digits) : Digits[j] = c

\* normalize_benefit_key
normalize_benefit_key(benefit_key) ==
    LET normalized == Replace(Replace(str_lower(benefit_key), << " " >>, << "_" >>),
                              << "-" >>, << "_" >>)
        Keep(c) == isalnum(c) \/ c = "_"
    IN SelectSeq(normalized, Keep)

S_specialist_visits ==
    << "s", "p", "e", "c", "i", "a", "l", "i", "s", "t", "_", "v", "i", "s", "i", "t", "s" >>
S_er_visits ==
    << "e", "r", "_", "v", "i", "s", "i", "t", "s" >>
S_tier_4_specialty_monthly ==
    << "t", "i", "e", "r", "_", "4", "_", "s", "p", "e", "c", "i", "a", "l", "t", "y", "_", "m", "o", "n", "t", "h", "l", "y" >>
S_inpatient_surgeries ==
    << "i", "n", "p", "a", "t", "i", "e", "n", "t", "_", "s", "u", "r", "g", "e", "r", "i", "e", "s" >>

\* THERAPY_BENEFIT_MAPPING: usage key -> plan benefit labels, in order
THERAPY_BENEFIT_MAPPING ==
    (S_speech_therapy_visits :>
        << S_speech_therapy,
           << "s", "p", "e", "e", "c", "h", "_", "l", "a", "n", "g", "u", "a", "g", "e", "_", "t", "h", "e", "r", "a", "p", "y" >>,
           S_therapy_services,
           S_rehabilitation_services,
           S_habilitation_services >>)
    @@ (S_occupational_therapy_visits :>
        << S_occupational_therapy,
           S_ot_therapy,
           S_therapy_services,
           S_rehabilitation_services,
           S_habilitation_services >>)

\* SERVICE_TYPE_MAPPING
SERVICE_TYPE_MAPPING ==
    (S_primary_care_visits :>
        << << "p", "r", "i", "m", "a", "r", "y", "_", "c", "a", "r", "e" >>,
           S_primary_care_visit,
           << "p", "c", "p", "_", "v", "i", "s", "i", "t" >>,
           << "o", "f", "f", "i", "c", "e", "_", "v", "i", "s", "i", "t", "_", "p", "r", "i", "m", "a", "r", "y" >> >>)
    @@ (S_specialist_visits :>
        << << "s", "p", "e", "c", "i", "a", "l", "i", "s", "t" >>,
           << "s", "p", "e", "c", "i", "a", "l", "i", "s", "t", "_", "v", "i", "s", "i", "t" >>,
           << "s", "p", "e", "c", "i", "a", "l", "t", "y", "_", "c", "a", "r", "e" >>,
           << "o", "f", "f", "i", "c", "e", "_", "v", "i", "s", "i", "t", "_", "s", "p", "e", "c", "i", "a", "l", "i", "s", "t" >> >>)
    @@ (S_er_visits :>
        << << "e", "m", "e", "r", "g", "e", "n", "c", "y", "_", "r", "o", "o", "m" >>,
           << "e", "r" >>,
           << "e", "m", "e", "r", "g", "e", "n", "c", "y", "_", "s", "e", "r", "v", "i", "c", "e", "s" >>,
           << "e", "m", "e", "r", "g", "e", "n", "c", "y", "_", "c", "a", "r", "e" >> >>)
    @@ (S_tier_1_generics_monthly :>
        << << "t", "i", "e", "r", "_", "1" >>,
           << "t", "i", "e", "r", "_", "1", "_", "g", "e", "n", "e", "r", "i", "c" >>,
           S_generic_drug,
           << "t", "i", "e", "r", "1", "_", "r", "x" >> >>)
    @@ (S_tier_4_specialty_monthly :>
        << << "t", "i", "e", "r", "_", "4" >>,
           << "t", "i", "e", "r", "_", "4", "_", "s", "p", "e", "c", "i", "a", "l", "t", "y" >>,
           S_specialty_drug,
           << "t", "i", "e", "r", "4", "_", "r", "x" >> >>)
    @@ (S_inpatient_surgeries :>
        << << "i", "n", "p", "a", "t", "i", "e", "n", "t", "_", "h", "o", "s", "p", "i", "t", "a", "l" >>,
           << "h", "o", "s", "p", "i", "t", "a", "l", "_", "s", "t", "a", "y" >>,
           << "i", "n", "p", "a", "t", "i", "e", "n", "t", "_", "c", "a", "r", "e" >>,
           << "h", "o", "s", "p", "i", "t", "a", "l", "i", "z", "a", "t", "i", "o", "n" >> >>)

\* ALL_SERVICE_MAPPINGS = {**SERVICE_TYPE_MAPPING, **THERAPY_BENEFIT_MAPPING}
ALL_SERVICE_MAPPINGS == THERAPY_BENEFIT_MAPPING @@ SERVICE_TYPE_MAPPING

\* find_matching_benefit: the dict normalized_benefits.  plan_keys is
\* plan_benefits.keys() in the order of the dict; of the keys with one
\* normalized form the comprehension keeps the last.
normalized_benefits(plan_keys) ==
    LET norm == [i \in DOMAIN plan_keys |-> normalize_benefit_key(plan_keys[i])]
        Last(n) == CHOOSE i \in DOMAIN plan_keys :
                      /\ norm[i] = n
                      /\ \A j \in DOMAIN plan_keys : norm[j] = n => j <= i
    IN [n \in { norm[i] : i \in DOMAIN plan_keys } |-> plan_keys[Last(n)]]

\* the first alternative whose normalized form normalized_benefits has
RECURSIVE FirstNormalizedIn(_, _)
FirstNormalizedIn(alternatives, benefits) ==
    IF alternatives = << >> THEN << >>
    ELSE IF normalize_benefit_key(alternatives[1]) \in DOMAIN benefits
    THEN << benefits[normalize_benefit_key(alternatives[1])] >>
    ELSE FirstNormalizedIn(Tail(alternatives), benefits)

\* find_matching_benefit: [found |-> FALSE] is None
find_matching_benefit(usage_type, plan_keys, use_fallback) ==
    LET benefits == normalized_benefits(plan_keys)
        normalized_usage == normalize_benefit_key(usage_type)
        alternative == IF use_fallback /\ usage_type \in DOMAIN ALL_SERVICE_MAPPINGS
                       THEN FirstNormalizedIn(ALL_SERVICE_MAPPINGS[usage_type], benefits)
                       ELSE << >>
    IN
    IF normalized_usage \in DOMAIN benefits
    THEN [found |-> TRUE, key |-> benefits[normalized_usage]]
    ELSE IF alternative # << >> THEN [found |-> TRUE, key |-> alternative[1]]
    ELSE [found |-> FALSE, key |-> S_empty]

-----------------------------------------------------------------------------
(* The two resolvers called on rule tables whose keys are raw labels *)

\* plan rule keys: raw labels and canonical keys, the first two with one
\* normalized form
MatchKeyList ==
    << << "S", "p", "e", "e", "c", "h", "-", "T", "h", "e", "r", "a", "p", "y",
          " ", "V", "i", "s", "i", "t", "s" >>,
       S_speech_therapy_visits,
       S_speech_therapy,
       << "T", "h", "e", "r", "a", "p", "y", " ", "S", "e", "r", "v", "i", "c",
          "e", "s", "!" >> >>
MatchTables ==
    { [k \in { MatchKeyList[i] : i \in I } |->
         RuleOfKey(CHOOSE i \in I : MatchKeyList[i] = k)] :
      I \in SUBSET (1..Len(MatchKeyList)) }

\* usage types: canonical keys and a raw one
MatchUsageTypes ==
    { S_speech_therapy_visits, S_occupational_therapy_visits,
      << "S", "p", "e", "e", "c", "h", " ", "T", "h", "e", "r", "a", "p", "y",
         "-", "V", "i", "s", "i", "t", "s" >> }

\* the orders in which a dict can hold the keys of the set keys
KeyOrders(keys) ==
    { p \in [1..Cardinality(keys) -> keys] :
        \A i, j \in DOMAIN p : i # j => p[i] # p[j] }

InitMatch ==
    \E t \in MatchTables :
        Construct(<< >>, << >>, [biweekly_premium |-> 0, annual_deductible |-> 0,
                                 benefit_rules |-> t])

\* find_matching_benefit(usage_type, plan_data['benefit_rules'], use_fallback)
MatchCall ==
    /\ \E usage_type \in MatchUsageTypes,
          plan_keys \in KeyOrders(DOMAIN plan_data.benefit_rules),
          use_fallback \in BOOLEAN :
         /\ call' = [op |-> "match", usage_type |-> usage_type,
                     plan_keys |-> plan_keys, use_fallback |-> use_fallback]
         /\ ret' = find_matching_benefit(usage_type, plan_keys, use_fallback)
    /\ UNCHANGED << usage_profile, standard_costs, plan_data, deductible_remaining,
                    deductible_paid, pc, idx, usage_breakdown, results >>

NextMatch == FindCall \/ MatchCall

SpecMatch == InitMatch /\ [][NextMatch]_vars

-----------------------------------------------------------------------------
(* The cost key of a usage key: calculate_usage_cost and the mapper *)

\* map_usage_to_standard_cost_key
map_usage_to_standard_cost_key(usage_key) ==
    LET sfx_surgeries == << "_", "s", "u", "r", "g", "e", "r", "i", "e", "s" >>
        sfx_generic == << "_", "g", "e", "n", "e", "r", "i", "c" >>
        monthly_base == Replace(usage_key, S_sfx_monthly, S_empty)
        base == IF EndsWith(monthly_base, S_sfx_generics)
                THEN Replace(monthly_base, S_sfx_generics, sfx_generic)
                ELSE monthly_base
    IN
    IF EndsWith(usage_key, S_sfx_monthly) THEN base \o S_sfx_cost
    ELSE IF EndsWith(usage_key, S_sfx_visits)
    THEN Replace(usage_key, S_sfx_visits, S_empty) \o << "_", "v", "i", "s", "i", "t" >>
    ELSE IF EndsWith(usage_key, sfx_surgeries)
    THEN Replace(usage_key, sfx_surgeries, S_empty) \o << "_", "s", "u", "r", "g", "e", "r", "y" >>
    ELSE usage_key

\* the pieces usage keys are made of
KeySegments ==
    { << "p", "r", "i", "m", "a", "r", "y", "_", "c", "a", "r", "e" >>, << "t", "i", "e", "r", "_", "1" >>, << "i", "n", "p", "a", "t", "i", "e", "n", "t" >>, << "c", "l", "a", "s", "s" >>,
      S_sfx_generics, S_sfx_specialty, S_sfx_monthly, S_sfx_visits }
CountSuffixes ==
    { S_sfx_visits, S_sfx_monthly, << "_", "s", "u", "r", "g", "e", "r", "i", "e", "s" >>, S_empty }

\* the concatenations of n segments
RECURSIVE Stems(_)
Stems(n) ==
    IF n = 0 THEN { S_empty }
    ELSE { stem \o segment : stem \in Stems(n - 1), segment \in KeySegments }

CostKeyUsageKeys ==
    { stem \o suffix :
        stem \in UNION { Stems(n) : n \in 1..MaxSegments },
        suffix \in CountSuffixes }

InitCostKey ==
    Construct(<< >>, << >>, [biweekly_premium |-> 0, annual_deductible |-> 0,
                             benefit_rules |-> << >>])

\* calculate_usage_cost maps a usage key to the key it looks up
CostKeyCall ==
    /\ \E usage_key \in CostKeyUsageKeys :
         /\ call' = [op |-> "cost_key", usage_key |-> usage_key]
         /\ ret' = cost_key_of(usage_key)
    /\ UNCHANGED << usage_profile, standard_costs, plan_data, deductible_remaining,
                    deductible_paid, pc, idx, usage_breakdown, results >>

\* map_usage_to_standard_cost_key(usage_key)
MapKeyCall ==
    /\ \E usage_key \in CostKeyUsageKeys :
         /\ call' = [op |-> "map_key", usage_key |-> usage_key]
         /\ ret' = map_usage_to_standard_cost_key(usage_key)
    /\ UNCHANGED << usage_profile, standard_costs, plan_data, deductible_remaining,
                    deductible_paid, pc, idx, usage_breakdown, results >>

NextCostKey == CostKeyCall \/ MapKeyCall

SpecCostKey == InitCostKey /\ [][NextCostKey]_vars

-----------------------------------------------------------------------------
(* calculate_all_plans *)

\* Python's None is the string "None"; ToString lets it be told from a number
IsNone(v) == ToString(v) = ToString("None")

\* required_fields without plan_name
required_fields_no_name == { "biweekly_premium", "annual_deductible", "oop_max" }

\* calculate_all_plans: required_fields
required_fields == { "plan_name", "biweekly_premium", "annual_deductible", "oop_max" }

\* calculate_all_plans: missing_fields.  A NaN cell of the frame is a field
\* the record of the row lacks, so that `f not in plan_data or
\* pd.isna(plan_data[f])` is f \notin DOMAIN plan.
missing_fields(plan) == { f \in required_fields : f \notin DOMAIN plan }

\* CostCalculator(user_needs, plan).calculate_total_cost() raises: some
\* service reaches apply_benefit_rule with a copay or coinsurance rule whose
\* value is None, and value * quantity is a TypeError
Raises(profile, costs, plan) ==
    \E i \in 1..Len(profile) :
        LET found == find_benefit_rule(profile[i].key,
                                       Get(plan, "benefit_rules", << >>))
        IN  /\ profile[i].quantity > 0
            /\ Get(costs, cost_key_of(profile[i].key), 0) > 0
            /\ ~Falsy(found)
            /\ Lower(Get(found.rule, "type", "copay")) \in { "copay", "coinsurance" }
            /\ IsNone(Get(found.rule, "value", 0))

\* calculate_all_plans: result_row, the plan data with the cost columns; the
\* columns cost_<service> are the field cost_columns
result_row(plan, cost_result) ==
    [total_annual_cost |-> cost_result.total_annual_cost,
     premium_cost_annual |-> cost_result.premium_cost,
     medical_drug_spend |-> cost_result.medical_drug_spend,
     deductible_paid |-> cost_result.deductible_paid,
     variable_cost_raw |-> cost_result.variable_cost_raw,
     cost_columns |-> cost_result.usage_breakdown]
    @@ plan

\* sort_values that sorts descending
sort_values_descending(rows) ==
    { [i \in 1..Len(rows) |-> rows[f[i]]] :
        f \in { g \in [1..Len(rows) -> 1..Len(rows)] :
                  /\ \A i, j \in 1..Len(rows) : i # j => g[i] # g[j]
                  /\ \A i, j \in 1..Len(rows) :
                        i < j => rows[g[i]].total_annual_cost
                                    >= rows[g[j]].total_annual_cost } }

\* result_df.sort_values('total_annual_cost', ascending=True): the default
\* kind is quicksort, which is not stable, so rows with equal totals come in
\* any order
sort_values(rows) ==
    { [i \in 1..Len(rows) |-> rows[f[i]]] :
        f \in { g \in [1..Len(rows) -> 1..Len(rows)] :
                  /\ \A i, j \in 1..Len(rows) : i # j => g[i] # g[j]
                  /\ \A i, j \in 1..Len(rows) :
                        i < j => rows[g[i]].total_annual_cost
                                    <= rows[g[j]].total_annual_cost } }

\* result_df.insert(0, 'rank', range(1, len(result_df) + 1))
insert_rank(rows) == [i \in 1..Len(rows) |-> [rank |-> i] @@ rows[i]]

\* a copay rule whose value is None
NoneRules == (S_primary_care_visits :> [type |-> "Copay", value |-> "None"])

\* the rows of the plan frames, without their plan_code: two plans that
\* calculate, one whose calculation raises, and plans with one NaN cell
PlanRows ==
    LET Row(name, b, d, t) ==
            [plan_name |-> name, biweekly_premium |-> b, annual_deductible |-> d,
             oop_max |-> 3 * CentUnits, benefit_rules |-> t]
        Without(row, f) == [g \in DOMAIN row \ { f } |-> row[g]]
    IN  { Row("Alpha", CentUnits, 0, CopayRules),
          Row("Beta", 2 * CentUnits, 3 * CentUnits, CoinsuranceRules),
          Row("Zeta", CentUnits, 0, NoneRules) }
        \cup { Without(Row("Gamma", CentUnits, 0, CopayRules), f) :
                  f \in { "plan_name", "biweekly_premium", "annual_deductible",
                          "oop_max" } }

\* plans_df: up to MaxPlans rows, plan_code telling the row
PlanFrames ==
    { [i \in 1..Len(rows) |-> [plan_code |-> i] @@ rows[i]] :
        rows \in UNION { [1..n -> PlanRows] : n \in 0..MaxPlans } }

\* user_needs['usage_profile'] of the batches
BatchProfiles ==
    { << [key |-> S_primary_care_visits, quantity |-> 1] >>,
      << [key |-> S_speech_therapy_visits, quantity |-> 2],
         [key |-> S_primary_care_visits, quantity |-> 0] >> }

\* calculate_all_plans: the body of the loop for one row, from the list
\* results: a row with a missing field is skipped, an exception is caught
batch_step(rows, row, profile, costs) ==
    IF missing_fields(row) # {} THEN rows
    ELSE IF Raises(profile, costs, row) THEN rows
    ELSE Append(rows,
                result_row(row,
                    calculate_total_cost(profile, costs, row,
                                         Get(row, "annual_deductible", 0), 0)))

\* calculate_all_plans(plans_df, user_needs) is entered
InitBatch ==
    \E plans_df \in PlanFrames, profile \in BatchProfiles :
        /\ usage_profile = profile
        /\ standard_costs = FullPrices
        /\ plan_data = << >>
        /\ deductible_remaining = 0
        /\ deductible_paid = 0
        /\ pc = "batch"
        /\ idx = 1
        /\ usage_breakdown = << >>
        /\ results = << >>
        /\ call = [op |-> "calculate_all_plans", plans_df |-> plans_df]
        /\ ret = << >>

\* one iteration of the loop over plans_df.iterrows()
PlanStep ==
    /\ pc = "batch"
    /\ idx <= Len(call.plans_df)
    /\ LET row == call.plans_df[idx] IN
         /\ plan_data' = row
         /\ results' = batch_step(results, row, usage_profile, standard_costs)
    /\ idx' = idx + 1
    /\ UNCHANGED << usage_profile, standard_costs, deductible_remaining,
                    deductible_paid, pc, usage_breakdown, call, ret >>

\* after the loop: the empty frame, or the sorted and ranked frame
ReturnTable ==
    /\ pc = "batch"
    /\ idx > Len(call.plans_df)
    /\ IF results = << >> THEN ret' = << >>
       ELSE \E sorted \in sort_values(results) : ret' = insert_rank(sorted)
    /\ pc' = "returned"
    /\ UNCHANGED << usage_profile, standard_costs, plan_data, deductible_remaining,
                    deductible_paid, idx, usage_breakdown, results, call >>

NextBatch == PlanStep \/ ReturnTable

SpecBatch == InitBatch /\ [][NextBatch]_vars

-----------------------------------------------------------------------------
(* load_user_needs and main *)

\* JSON values: a number, a string, a boolean
Num(n) == [t |-> "number", v |-> n]
Str == [t |-> "string", v |-> "text"]
Bool(b) == [t |-> "bool", v |-> b]

\* isinstance(value, (int, float)): a bool is an int
is_number(value) == value.t \in { "number", "bool" }

\* the number a value is in arithmetic and comparisons (True is 1)
as_number(value) ==
    IF value.t = "bool" THEN (IF value.v THEN 1 ELSE 0) ELSE value.v

S_description ==
    << "d", "e", "s", "c", "r", "i", "p", "t", "i", "o", "n" >>

\* the items of a JSON object without the key description
without_description(items) ==
    SelectSeq(items, LAMBDA e : e.key # S_description)

\* load_user_needs without the validation of the values
load_user_needs_unvalidated(file) ==
    IF file.state = "absent" THEN [raised |-> "FileNotFoundError"]
    ELSE IF file.state = "invalid_json" THEN [raised |-> "JSONDecodeError"]
    ELSE IF { "usage_profile", "standard_costs" } \ DOMAIN file.config # {}
    THEN [raised |-> "ValueError"]
    ELSE IF file.config.usage_profile = << >> THEN [raised |-> "ValueError"]
    ELSE IF without_description(file.config.standard_costs) = << >>
    THEN [raised |-> "ValueError"]
    ELSE [raised |-> "no", config |-> file.config]

\* load_user_needs: the exception raised, or "no" and the config returned.
\* file is what the path holds: nothing, text that is no JSON, or an object.
load_user_needs(file) ==
    LET Bad(items) ==
            \E i \in 1..Len(items) :
                \/ ~is_number(items[i].value)
                \/ as_number(items[i].value) < 0
    IN
    IF file.state = "absent" THEN [raised |-> "FileNotFoundError"]
    ELSE IF file.state = "invalid_json" THEN [raised |-> "JSONDecodeError"]
    ELSE IF { "usage_profile", "standard_costs" } \ DOMAIN file.config # {}
    THEN [raised |-> "ValueError"]
    ELSE IF file.config.usage_profile = << >> THEN [raised |-> "ValueError"]
    ELSE IF without_description(file.config.standard_costs) = << >>
    THEN [raised |-> "ValueError"]
    ELSE IF Bad(file.config.usage_profile) THEN [raised |-> "ValueError"]
    ELSE IF Bad(without_description(file.config.standard_costs))
    THEN [raised |-> "ValueError"]
    ELSE [raised |-> "no", config |-> file.config]

\* user_needs['usage_profile'] and user_needs['standard_costs'] as the
\* calculator reads them
profile_of(config) ==
    [i \in 1..Len(config.usage_profile) |->
        [key |-> config.usage_profile[i].key,
         quantity |-> as_number(config.usage_profile[i].value)]]
costs_of(config) ==
    [k \in { config.standard_costs[i].key : i \in 1..Len(config.standard_costs) } |->
        LET i == CHOOSE i \in 1..Len(config.standard_costs) :
                     config.standard_costs[i].key = k
        IN  IF config.standard_costs[i].value.t = "string"
            THEN config.standard_costs[i].value.v
            ELSE as_number(config.standard_costs[i].value)]

\* calculate_all_plans: the list results after the loop over rows i..
RECURSIVE batch_rows(_, _, _, _, _)
batch_rows(plans_df, i, profile, costs, rows) ==
    IF i > Len(plans_df) THEN rows
    ELSE batch_rows(plans_df, i + 1, profile, costs,
                    batch_step(rows, plans_df[i], profile, costs))

\* the values a usage_profile or a standard_costs entry can hold
UsageValues == { Num(0 - 1), Num(0), Num(MaxQty), Str, Bool(TRUE) }
CostValues == { Num(0 - CentUnits), Num(0), Num(2 * CentUnits), Str }

UsageOptions ==
    { << >> }
    \cup { << [key |-> S_primary_care_visits, value |-> v] >> : v \in UsageValues }
    \cup { << [key |-> S_primary_care_visits, value |-> Num(1)],
              [key |-> S_speech_therapy_visits, value |-> v] >> : v \in UsageValues }
CostOptions ==
    { << >>, << [key |-> S_description, value |-> Str] >>,
      << [key |-> S_description, value |-> Str],
         [key |-> S_primary_care_visit, value |-> Num(2 * CentUnits)] >> }
    \cup { << [key |-> S_primary_care_visit, value |-> v] >> : v \in CostValues }

\* what the user needs path can hold
NeedsFiles ==
    { [state |-> "absent"], [state |-> "invalid_json"] }
    \cup { [state |-> "json", config |-> c] :
             c \in [usage_profile : UsageOptions, standard_costs : CostOptions]
                   \cup [usage_profile : UsageOptions]
                   \cup [standard_costs : CostOptions]
                   \cup { << >> } }

\* what the scraping pipeline can return: frames of at most one plan
ScrapedFrames == { f \in PlanFrames : Len(f) <= 1 }

\* main() is entered; idx counts the CostCalculator objects constructed
InitMain ==
    \E file \in NeedsFiles :
        /\ usage_profile = << >>
        /\ standard_costs = << >>
        /\ plan_data = << >>
        /\ deductible_remaining = 0
        /\ deductible_paid = 0
        /\ pc = "main"
        /\ idx = 0
        /\ usage_breakdown = << >>
        /\ results = << >>
        /\ call = [op |-> "main", user_needs_file |-> file, plans_df |-> << >>]
        /\ ret = 0

\* main returns code from wherever it is
Return(code) ==
    /\ pc' = "returned"
    /\ ret' = code
    /\ UNCHANGED << usage_profile, standard_costs, plan_data, deductible_remaining,
                    deductible_paid, idx, usage_breakdown, results, call >>

\* step 1: load_user_needs, then load_app_config, which raises or not on an
\* application configuration the model does not look into
LoadConfigurations ==
    /\ pc = "main"
    /\ LET loaded == load_user_needs(call.user_needs_file) IN
       IF loaded.raised # "no" THEN Return(1)
       ELSE \/ Return(1)
            \/ /\ usage_profile' = profile_of(loaded.config)
               /\ standard_costs' = costs_of(loaded.config)
               /\ pc' = "configured"
               /\ UNCHANGED << plan_data, deductible_remaining, deductible_paid, idx,
                               usage_breakdown, results, call, ret >>

\* step 2: run_full_scrape_pipeline raises, returns no plan, or returns plans
Scrape ==
    /\ pc = "configured"
    /\ \/ Return(1)
       \/ \E plans_df \in ScrapedFrames :
            IF Len(plans_df) = 0 THEN Return(1)
            ELSE /\ call' = [call EXCEPT !.plans_df = plans_df]
                 /\ pc' = "scraped"
                 /\ UNCHANGED << usage_profile, standard_costs, plan_data,
                                 deductible_remaining, deductible_paid, idx,
                                 usage_breakdown, results, ret >>

\* step 3: calculate_all_plans(plans_df, user_needs)
CalculateAll ==
    /\ pc = "scraped"
    /\ LET rows == batch_rows(call.plans_df, 1, usage_profile, standard_costs, << >>)
           constructed == Cardinality({ i \in 1..Len(call.plans_df) :
                                          missing_fields(call.plans_df[i]) = {} })
       IN  IF rows = << >>
           THEN /\ pc' = "returned"
                /\ ret' = 1
                /\ idx' = idx + constructed
                /\ UNCHANGED << usage_profile, standard_costs, plan_data,
                                deductible_remaining, deductible_paid,
                                usage_breakdown, results, call >>
           ELSE /\ \E sorted \in sort_values(rows) : results' = insert_rank(sorted)
                /\ idx' = idx + constructed
                /\ pc' = "calculated"
                /\ UNCHANGED << usage_profile, standard_costs, plan_data,
                                deductible_remaining, deductible_paid,
                                usage_breakdown, call, ret >>

\* step 4: the table is saved and shown, or writing it raises
Save ==
    /\ pc = "calculated"
    /\ \/ Return(0)
       \/ Return(1)

NextMain == LoadConfigurations \/ Scrape \/ CalculateAll \/ Save

SpecMain == InitMain /\ [][NextMain]_vars

-----------------------------------------------------------------------------
(* Two CostCalculator instances, their steps interleaved *)

\* every instance has the attributes of one object
attrs_of_shared(k) == 1

\* self: the object whose attributes a method of instance k reads and writes
attrs_of(k) == k

Instances == 1..2

\* the plans of the two instances
PairPlans ==
    { q \in Plans : /\ "oop_max" \notin DOMAIN q
                    /\ q.annual_deductible > 0
                    /\ q.benefit_rules \in { CoinsuranceRules, MixedRules } }

\* calculate_all_plans builds one CostCalculator per plan, all on one
\* user_needs; here two of them exist at once
InitPair ==
    \E p \in Profiles, plans \in [Instances -> PairPlans] :
        /\ usage_profile = p
        /\ standard_costs = FullPrices
        /\ plan_data = plans
        /\ deductible_remaining =
              [k \in Instances |-> Get(plans[k], "annual_deductible", 0)]
        /\ deductible_paid = [k \in Instances |-> 0]
        /\ pc = [k \in Instances |-> "idle"]
        /\ idx = [k \in Instances |-> 0]
        /\ usage_breakdown = [k \in Instances |-> << >>]
        /\ results = [k \in Instances |-> << >>]
        /\ call = NoCall
        /\ ret = 0

\* instance k enters calculate_total_cost
PairCalculate(k) ==
    /\ pc[k] = "idle"
    /\ results[k] = << >>
    /\ LET fresh == reset_deductible(plan_data[k], deductible_remaining[attrs_of(k)],
                                     deductible_paid[attrs_of(k)])
       IN  /\ deductible_remaining' =
                 [deductible_remaining EXCEPT ![attrs_of(k)] = fresh.deductible_remaining]
           /\ deductible_paid' =
                 [deductible_paid EXCEPT ![attrs_of(k)] = fresh.deductible_paid]
    /\ pc' = [pc EXCEPT ![k] = "running"]
    /\ idx' = [idx EXCEPT ![k] = 1]
    /\ usage_breakdown' = [usage_breakdown EXCEPT ![k] = << >>]
    /\ call' = [op |-> "step", instance |-> k]
    /\ UNCHANGED << usage_profile, standard_costs, plan_data, results, ret >>

\* one iteration of the loop of calculate_usage_cost of instance k
PairProcessService(k) ==
    /\ pc[k] = "running"
    /\ idx[k] <= Len(usage_profile)
    /\ LET item == usage_profile[idx[k]]
           s == usage_step(item.key, item.quantity, standard_costs,
                           Get(plan_data[k], "benefit_rules", << >>),
                           deductible_remaining[attrs_of(k)],
                           deductible_paid[attrs_of(k)])
       IN  /\ deductible_remaining' =
                 [deductible_remaining EXCEPT ![attrs_of(k)] = s.deductible_remaining]
           /\ deductible_paid' =
                 [deductible_paid EXCEPT ![attrs_of(k)] = s.deductible_paid]
           /\ usage_breakdown' =
                 [usage_breakdown EXCEPT ![k] =
                     IF s.kind = "skip" THEN @
                     ELSE Append(@, [key |-> item.key, cost |-> s.cost])]
    /\ idx' = [idx EXCEPT ![k] = @ + 1]
    /\ call' = [op |-> "step", instance |-> k]
    /\ UNCHANGED << usage_profile, standard_costs, plan_data, pc, results, ret >>

\* instance k returns its result
PairFinish(k) ==
    /\ pc[k] = "running"
    /\ idx[k] > Len(usage_profile)
    /\ results' = [results EXCEPT ![k] =
                      Append(@, build_result(plan_data[k], usage_breakdown[k],
                                             deductible_paid[attrs_of(k)]))]
    /\ pc' = [pc EXCEPT ![k] = "idle"]
    /\ call' = [op |-> "step", instance |-> k]
    /\ UNCHANGED << usage_profile, standard_costs, plan_data, deductible_remaining,
                    deductible_paid, idx, usage_breakdown, ret >>

NextPair ==
    \E k \in Instances : PairCalculate(k) \/ PairProcessService(k) \/ PairFinish(k)

SpecPair == InitPair /\ [][NextPair]_vars

-----------------------------------------------------------------------------
(* Calculations on monthly keys and keys that look like them *)

S_tier_1_generics_monthlys ==
    << "t", "i", "e", "r", "_", "1", "_", "g", "e", "n", "e", "r", "i", "c", "s", "_", "m", "o", "n", "t", "h", "l", "y", "s" >>

MonthlyKeys ==
    { S_tier_1_generics_monthly, S_tier_1_generics_monthlys, S_primary_care_visits }

\* profiles of one or two of these services
MonthlyProfiles ==
    { p \in UNION { [1..n -> [key : MonthlyKeys, quantity : Quantities]] : n \in 1..2 } :
        \A i, j \in 1..Len(p) : i # j => p[i].key # p[j].key }

InitMonthly ==
    \E p \in MonthlyProfiles,
       plan \in { q \in Plans : q.benefit_rules \in { CopayRules, CoinsuranceRules } } :
        Construct(p, FullPrices, plan)

SpecMonthly == InitMonthly /\ [][Next]_vars

-----------------------------------------------------------------------------
(* OPMScraper.fetch_page *)

\* load_app_config: the max_retries values (integers) it lets through
valid_max_retries(v) == ~(v < 0)

\* what one attempt ends in: a parsed page, a requests.RequestException
\* (timeout, connection, HTTP status, redirects), or another exception (parser)
RequestExceptions == { "Timeout", "ConnectionError", "HTTPError", "TooManyRedirects" }
Outcomes == { "ok", "FeatureNotFound" } \cup RequestExceptions

\* fetch_page is entered; idx is the loop variable attempt, results the
\* outcomes of the requests made so far
InitFetch ==
    \E max_retries \in { v \in (0 - 1)..MaxRetries : valid_max_retries(v) } :
        /\ usage_profile = << >>
        /\ standard_costs = << >>
        /\ plan_data = << >>
        /\ deductible_remaining = 0
        /\ deductible_paid = 0
        /\ pc = "fetching"
        /\ idx = 0
        /\ usage_breakdown = << >>
        /\ results = << >>
        /\ call = [op |-> "fetch_page", max_retries |-> max_retries]
        /\ ret = "pending"

\* one iteration of the loop: requests.get, raise_for_status, BeautifulSoup
Attempt ==
    /\ pc = "fetching"
    /\ idx < call.max_retries
    /\ \E outcome \in Outcomes :
         /\ results' = Append(results, outcome)
         /\ IF outcome = "ok"
            THEN pc' = "returned" /\ ret' = "soup" /\ idx' = idx
            ELSE IF outcome \in RequestExceptions /\ idx < call.max_retries - 1
            THEN pc' = pc /\ ret' = ret /\ idx' = idx + 1
            ELSE pc' = "raised" /\ ret' = "Exception" /\ idx' = idx
    /\ UNCHANGED << usage_profile, standard_costs, plan_data, deductible_remaining,
                    deductible_paid, usage_breakdown, call >>

\* range(self.max_retries) is used up: the function ends without a return
FallThrough ==
    /\ pc = "fetching"
    /\ ~(idx < call.max_retries)
    /\ pc' = "returned"
    /\ ret' = "None"
    /\ UNCHANGED << usage_profile, standard_costs, plan_data, deductible_remaining,
                    deductible_paid, idx, usage_breakdown, results, call >>

NextFetch == Attempt \/ FallThrough

SpecFetch == InitFetch /\ [][NextFetch]_vars

-----------------------------------------------------------------------------
(* Calculations on plans whose exact-key rule hides a fallback rule *)

\* rule tables: speech_therapy_visits absent or with a rule of any type or
\* an empty one, therapy_services absent or with a usable rule
ShadowTables ==
    { [k \in I |-> IF k = S_speech_therapy_visits THEN exact ELSE fallback] :
        I \in SUBSET { S_speech_therapy_visits, S_therapy_services },
        exact \in { NotCovered, [type |-> "complex", value |-> "None"],
                    Copay(2 * CentUnits), NoRule },
        fallback \in { Copay(3 * CentUnits), Coinsurance(50) } }

InitShadow ==
    \E p \in { q \in Profiles : \E i \in 1..Len(q) : q[i].key = S_speech_therapy_visits },
       t \in ShadowTables, d \in Deductibles :
        Construct(p, FullPrices,
                  [biweekly_premium |-> CentUnits, annual_deductible |-> d,
                   benefit_rules |-> t])

SpecShadow == InitShadow /\ [][Next]_vars

-----------------------------------------------------------------------------
(* Properties *)

Annual == Get(plan_data, "annual_deductible", 0)

HasType(rule, t) ==
    /\ DOMAIN rule # {}
    /\ "type" \in DOMAIN rule
    /\ Lower(rule["type"]) = t

LastResult == results[Len(results)]

\* C1: in every state of a calculation (after the reset and after each
\* processed service) 0 <= deductible_remaining, deductible_paid <=
\* annual_deductible and deductible_remaining = annual_deductible -
\* deductible_paid.
C1_DeductibleInvariant ==
    /\ 0 <= deductible_remaining
    /\ deductible_paid <= Annual
    /\ deductible_remaining = Annual - deductible_paid

\* a coinsurance service has consumed part of the deductible, not all of it
C1_Witness ==
    /\ pc = "running"
    /\ call.op = "apply"
    /\ HasType(call.rule, "coinsurance")
    /\ 0 < deductible_paid
    /\ 0 < deductible_remaining

\* C2: apply_benefit_rule with a coinsurance rule of rate r, unit price p > 0,
\* quantity q > 0, called with deductible_remaining d, market = p * q:
\* market <= d: it returns market and deductible_remaining becomes d - market;
\* market > d: it returns d + (market - d) * r and deductible_remaining
\* becomes 0; deductible_paid grows by min(market, d).
C2_CoinsuranceSplit ==
    (/\ call.op = "apply"
     /\ HasType(call.rule, "coinsurance")
     /\ call.market_cost > 0
     /\ call.quantity > 0)
    =>
    LET market == call.market_cost * call.quantity
        d == call.d_before
        r == call.rule["value"]
    IN  /\ market <= d =>
              /\ ret = market
              /\ deductible_remaining = d - market
        /\ market > d =>
              /\ ret = d + Times(market - d, r)
              /\ deductible_remaining = 0
        /\ deductible_paid = call.p_before + Min(market, d)

\* a call whose market cost exceeds a deductible that is not yet met
C2_Witness ==
    /\ call.op = "apply"
    /\ HasType(call.rule, "coinsurance")
    /\ call.rule["value"] = 50
    /\ call.d_before > 0
    /\ call.market_cost * call.quantity > call.d_before
    /\ ret > call.d_before

\* C3: a copay rule of amount a applied to quantity q > 0 at a positive price
\* costs a * q and leaves deductible_remaining and deductible_paid as they
\* were; a calculation whose services all resolve to copay rules returns
\* deductible_paid = 0.
C3_CopayIndependence ==
    /\ (/\ call.op = "apply"
        /\ HasType(call.rule, "copay")
        /\ call.market_cost > 0
        /\ call.quantity > 0)
       =>
       /\ ret = call.rule["value"] * call.quantity
       /\ deductible_remaining = call.d_before
       /\ deductible_paid = call.p_before
    /\ (/\ pc = "idle"
        /\ results # << >>
        /\ \A i \in 1..Len(usage_profile) :
              LET f == find_benefit_rule(usage_profile[i].key,
                                         Get(plan_data, "benefit_rules", << >>))
              IN  f.found /\ HasType(f.rule, "copay"))
       => LastResult.deductible_paid = 0

\* a copay charged while the deductible is partly consumed
C3_Witness ==
    /\ pc = "running"
    /\ call.op = "apply"
    /\ HasType(call.rule, "copay")
    /\ ret > 0
    /\ 0 < call.d_before
    /\ call.d_before < Annual

\* the services of the profile that are priced and resolve to a rule
Rules == Get(plan_data, "benefit_rules", << >>)

Priced(i) ==
    /\ usage_profile[i].quantity > 0
    /\ Get(standard_costs, cost_key_of(usage_profile[i].key), 0) > 0

ResolvedRule(i) == find_benefit_rule(usage_profile[i].key, Rules)

ResolvesTo(i, t) == ResolvedRule(i).found /\ HasType(ResolvedRule(i).rule, t)

IsMonthlyKey(usage_key) == EndsWith(RStrip(usage_key, S_s), S_sfx_monthly)

HasEntry(result, usage_key) ==
    \E j \in 1..Len(result.usage_breakdown) :
        result.usage_breakdown[j].key = usage_key

EntryCost(result, usage_key) ==
    LET j == CHOOSE j \in 1..Len(result.usage_breakdown) :
                 result.usage_breakdown[j].key = usage_key
    IN  result.usage_breakdown[j].cost

\* C4 as stated: every service with quantity q > 0, a positive price and a
\* resolved copay rule of amount a is reported as a * q, whatever its key.
C4_CopayTimesQuantity ==
    \A r \in 1..Len(results) : \A i \in 1..Len(usage_profile) :
        (Priced(i) /\ ResolvesTo(i, "copay")) =>
            /\ HasEntry(results[r], usage_profile[i].key)
            /\ EntryCost(results[r], usage_profile[i].key) =
                   ResolvedRule(i).rule["value"] * usage_profile[i].quantity

\* C4 amended: such a service is reported as a * q, except that a key ending
\* in _monthly (after trailing "s" characters are stripped) is reported as
\* a * 12 * q.
C4_CopayMonthlyTimesTwelve ==
    \A r \in 1..Len(results) : \A i \in 1..Len(usage_profile) :
        (Priced(i) /\ ResolvesTo(i, "copay")) =>
            /\ HasEntry(results[r], usage_profile[i].key)
            /\ EntryCost(results[r], usage_profile[i].key) =
                   IF IsMonthlyKey(usage_profile[i].key)
                   THEN ResolvedRule(i).rule["value"] * 12 * usage_profile[i].quantity
                   ELSE ResolvedRule(i).rule["value"] * usage_profile[i].quantity

\* a result that reports a monthly copay service and a per-visit copay service
C4_Witness ==
    /\ results # << >>
    /\ \E i, j \in 1..Len(usage_profile) :
          /\ Priced(i) /\ ResolvesTo(i, "copay")
          /\ IsMonthlyKey(usage_profile[i].key)
          /\ EntryCost(LastResult, usage_profile[i].key) > 0
          /\ Priced(j) /\ ResolvesTo(j, "copay")
          /\ ~IsMonthlyKey(usage_profile[j].key)
          /\ EntryCost(LastResult, usage_profile[j].key) > 0

\* C5: medical_drug_spend = min(variable_cost_raw, oop_max), oop_max unbounded
\* when the plan has none; it equals variable_cost_raw when that is
\* <= oop_max and never exceeds oop_max.
C5_OopCap ==
    \A r \in 1..Len(results) :
        IF "oop_max" \in DOMAIN plan_data
        THEN /\ results[r].medical_drug_spend =
                    Min(results[r].variable_cost_raw, plan_data["oop_max"])
             /\ results[r].medical_drug_spend <= plan_data["oop_max"]
        ELSE results[r].medical_drug_spend = results[r].variable_cost_raw

\* a result whose variable cost was capped
C5_Witness ==
    /\ results # << >>
    /\ "oop_max" \in DOMAIN plan_data
    /\ LastResult.variable_cost_raw > plan_data["oop_max"]
    /\ LastResult.medical_drug_spend = plan_data["oop_max"]

RECURSIVE SumEntries(_)
SumEntries(seq) == IF seq = << >> THEN 0 ELSE seq[1].cost + SumEntries(Tail(seq))

\* C6: the returned CostResult satisfies total_annual_cost = premium_cost +
\* medical_drug_spend, variable_cost_raw = sum of the usage_breakdown values
\* and premium_cost = 26 * biweekly premium.
C6_ResultIdentities ==
    \A r \in 1..Len(results) :
        /\ results[r].total_annual_cost =
               results[r].premium_cost + results[r].medical_drug_spend
        /\ results[r].variable_cost_raw = SumEntries(results[r].usage_breakdown)
        /\ results[r].premium_cost = 26 * plan_data["biweekly_premium"]

\* the orders in which the same profile can be inserted
Orders(n) == { f \in [1..n -> 1..n] : \A i, j \in 1..n : i # j => f[i] # f[j] }
Reordered(profile, f) == [i \in 1..Len(profile) |-> profile[f[i]]]

\* what a fresh calculator returns for the profile inserted in order f
FreshResult(f) ==
    calculate_total_cost(Reordered(usage_profile, f), standard_costs, plan_data,
                         Annual, 0)

\* C7 as stated: when calculate_total_cost has returned, the same services
\* and quantities inserted in any other order give the same variable_cost_raw
\* as the result just returned.
C7_OrderInvariantTotal ==
    (pc = "idle" /\ results # << >>) =>
        \A f \in Orders(Len(usage_profile)) :
            FreshResult(f).variable_cost_raw = LastResult.variable_cost_raw

\* the priced services that resolve to a coinsurance rule all have one rate
OneCoinsuranceRate ==
    \A i, j \in 1..Len(usage_profile) :
        (/\ Priced(i) /\ ResolvesTo(i, "coinsurance")
         /\ Priced(j) /\ ResolvesTo(j, "coinsurance"))
        => ResolvedRule(i).rule["value"] = ResolvedRule(j).rule["value"]

\* C7 amended: every other insertion order gives the same variable_cost_raw
\* as the result just returned when the priced coinsurance services of the
\* profile all carry the same rate.
C7_OrderInvariantSameRate ==
    (pc = "idle" /\ results # << >> /\ OneCoinsuranceRate) =>
        \A f \in Orders(Len(usage_profile)) :
            FreshResult(f).variable_cost_raw = LastResult.variable_cost_raw

\* two coinsurance services of one rate whose split depends on the order
C7_Witness ==
    /\ pc = "idle"
    /\ results # << >>
    /\ OneCoinsuranceRate
    /\ \E i, j \in 1..Len(usage_profile) :
          /\ i # j
          /\ Priced(i) /\ ResolvesTo(i, "coinsurance")
          /\ Priced(j) /\ ResolvesTo(j, "coinsurance")
    /\ \E f \in Orders(Len(usage_profile)) :
          EntryCost(FreshResult(f), usage_profile[1].key) #
              EntryCost(LastResult, usage_profile[1].key)

\* C8: every calculate_total_cost call starts from deductible_remaining =
\* annual_deductible and deductible_paid = 0, and returns what the first call
\* on a fresh instance returns, also after direct apply_benefit_rule calls.
C8_NoLeakBetweenRuns ==
    /\ (pc = "running" /\ idx = 1) =>
          /\ deductible_remaining = Annual
          /\ deductible_paid = 0
    /\ \A r \in 1..Len(results) :
          results[r] = calculate_total_cost(usage_profile, standard_costs,
                                            plan_data, Annual, 0)

\* a second result, returned after a first run that consumed deductible
C8_Witness ==
    /\ Len(results) >= 2
    /\ results[1].deductible_paid > 0
    /\ results[2].deductible_paid > 0

Fresh == deductible_remaining = Annual /\ deductible_paid = 0

\* C9: from one processed service to the next deductible_remaining never
\* increases and deductible_paid never decreases; once deductible_remaining
\* is 0 it stays 0 for the rest of the run; the state gets back to Fresh only
\* by the reset that starts a calculate_total_cost call.
C9_Monotone ==
    [][ /\ (pc = "running" /\ pc' = "running") =>
              /\ deductible_remaining' <= deductible_remaining
              /\ deductible_paid' >= deductible_paid
              /\ deductible_remaining = 0 => deductible_remaining' = 0
        /\ (~Fresh /\ Fresh') => (pc = "idle" /\ pc' = "running")
      ]_vars

\* the deductible is exhausted while a coinsurance service is still to come
C9_Witness ==
    /\ pc = "running"
    /\ Annual > 0
    /\ deductible_remaining = 0
    /\ idx <= Len(usage_profile)
    /\ Priced(idx) /\ ResolvesTo(idx, "coinsurance")

\* the aliases the resolver tries for the therapy families, in order
FamilyOrder(usage_key) ==
    CASE usage_key = S_speech_therapy_visits ->
            << S_speech_therapy, S_therapy_services,
               S_rehabilitation_services, S_habilitation_services >>
      [] usage_key = S_occupational_therapy_visits ->
            << S_occupational_therapy, S_ot_therapy, S_therapy_services,
               S_rehabilitation_services, S_habilitation_services >>
      [] usage_key = S_physical_therapy_visits ->
            << S_physical_therapy, S_pt_therapy, S_therapy_services,
               S_rehabilitation_services, S_habilitation_services >>
      [] OTHER -> << >>

Combined ==
    { S_therapy_services, S_rehabilitation_services, S_habilitation_services }

\* C10: for a therapy usage key with no exact match the resolver returns the
\* rule of the first alias of the family's order that the plan has; a
\* combined-category rule is returned only when the plan has no rule under a
\* specific therapy name.
C10_TherapyPriority ==
    (/\ call.op = "find"
     /\ FamilyOrder(call.usage_key) # << >>
     /\ call.usage_key \notin DOMAIN Rules)
    =>
    LET order == FamilyOrder(call.usage_key)
        present == { n \in 1..Len(order) : order[n] \in DOMAIN Rules }
    IN  present # {} =>
              LET first == CHOOSE n \in present : \A m \in present : n <= m
              IN  /\ ret.found
                  /\ ret.rule = Rules[order[first]]
                  /\ order[first] \in Combined =>
                        \A n \in 1..Len(order) :
                            order[n] \notin Combined => order[n] \notin DOMAIN Rules

\* occupational therapy falls back to rehabilitation_services: the plan has
\* it and habilitation_services, and nothing earlier in the order
C10_Witness ==
    /\ call.op = "find"
    /\ call.usage_key = S_occupational_therapy_visits
    /\ DOMAIN Rules \cap { S_occupational_therapy, S_ot_therapy, S_therapy_services } = {}
    /\ S_rehabilitation_services \in DOMAIN Rules
    /\ S_habilitation_services \in DOMAIN Rules
    /\ ret.found
    /\ ret.rule = Rules[S_rehabilitation_services]

-----------------------------------------------------------------------------
(* C11 *)

\* the plan rule keys whose canonical form is that of the usage key
CanonicalMatches(usage_key) ==
    { k \in DOMAIN plan_data.benefit_rules :
        normalize_benefit_key(k) = normalize_benefit_key(usage_key) }

\* find_matching_benefit returns a plan key with the canonical form of the
\* usage type whenever the plan has one
MatchPrefersCanonical ==
    call.op = "match" /\ CanonicalMatches(call.usage_type) # {}
        => ret.found /\ ret.key \in CanonicalMatches(call.usage_type)

\* _find_benefit_rule returns the rule of a plan key with the canonical form
\* of the usage key whenever the plan has one
FindPrefersCanonical ==
    call.op = "find" /\ CanonicalMatches(call.usage_key) # {}
        => /\ ret.found
           /\ ret.rule \in { plan_data.benefit_rules[k] :
                               k \in CanonicalMatches(call.usage_key) }

\* C11: resolution begins with a normalized exact match: whenever the
\* canonical form of the usage key equals the canonical form of a plan rule
\* key, the rule under such a key is what resolution returns, in preference
\* to any fallback alias, by find_matching_benefit and by the resolver of
\* the calculator alike.
C11_NormalizedExactMatch == MatchPrefersCanonical /\ FindPrefersCanonical

-----------------------------------------------------------------------------
(* C12 *)

\* the usage key without a trailing _visits, the key itself when it has none
StripTrailingVisits(usage_key) ==
    IF EndsWith(usage_key, S_sfx_visits)
    THEN SubSeq(usage_key, 1, Len(usage_key) - Len(S_sfx_visits))
    ELSE usage_key

\* C12: when the plan has no rule under the usage key itself, the resolver
\* retries with the usage key from which only a trailing _visits is removed
\* and returns the rule under that key if the plan has one, before any
\* category fallback.
C12_TrailingVisitsRetry ==
    /\ call.op = "find"
    /\ call.usage_key \notin DOMAIN plan_data.benefit_rules
    /\ StripTrailingVisits(call.usage_key) \in DOMAIN plan_data.benefit_rules
    => /\ ret.found
       /\ ret.rule = plan_data.benefit_rules[StripTrailingVisits(call.usage_key)]

-----------------------------------------------------------------------------
(* C13 *)

\* C13: for every usage key ending in _visits, _monthly or _surgeries, the
\* price-table key that calculate_usage_cost looks up is the cost key that
\* map_usage_to_standard_cost_key gives for it.
C13_CostKeyIsMapped ==
    /\ call.op = "cost_key"
    /\ \E suffix \in CountSuffixes \ { S_empty } : EndsWith(call.usage_key, suffix)
    => ret = map_usage_to_standard_cost_key(call.usage_key)

-----------------------------------------------------------------------------
(* C14, C15 *)

\* the loop of calculate_usage_cost is at service i
AtService(i) == pc = "running" /\ idx = i /\ i <= Len(usage_profile)

\* the step leaves the loop running at the next service
LoopGoesOn == pc' = "running" /\ idx' = idx + 1

\* every priced service of the profile has an entry in the last result
AllPricedReported ==
    pc = "idle" /\ results # << >> =>
        \A i \in 1..Len(usage_profile) :
            Priced(i) => HasEntry(LastResult, usage_profile[i].key)

\* C14: when no rule is found for a priced service, the calculation does not
\* fail: the service contributes exactly 0 (its entry is 0), the step leaves
\* deductible_remaining and deductible_paid unchanged, the loop goes on with
\* the next service, and the finished result reports every priced service,
\* the ones with no rule at 0.
C14_UnresolvedCostsNothing ==
    /\ [][ AtService(idx) /\ Priced(idx) /\ Falsy(ResolvedRule(idx)) =>
              /\ usage_breakdown' =
                    Append(usage_breakdown,
                           [key |-> usage_profile[idx].key, cost |-> 0])
              /\ deductible_remaining' = deductible_remaining
              /\ deductible_paid' = deductible_paid
              /\ LoopGoesOn
         ]_vars
    /\ [](AllPricedReported
          /\ (pc = "idle" /\ results # << >> =>
                \A i \in 1..Len(usage_profile) :
                    Priced(i) /\ Falsy(ResolvedRule(i)) =>
                        EntryCost(LastResult, usage_profile[i].key) = 0))

\* a result in which a service without a rule is followed by a service that
\* was charged
C14_Witness ==
    /\ pc = "idle" /\ results # << >>
    /\ \E i, j \in 1..Len(usage_profile) :
          /\ i < j
          /\ Priced(i) /\ Falsy(ResolvedRule(i))
          /\ Priced(j) /\ EntryCost(LastResult, usage_profile[j].key) > 0

\* the price calculate_usage_cost finds for service i, 0 when there is none
MarketCost(i) == Get(standard_costs, cost_key_of(usage_profile[i].key), 0)

\* C15: a service with a positive quantity whose cost key has no entry or a
\* non-positive entry in the price table does not abort the calculation:
\* its step adds nothing to the breakdown, leaves deductible_remaining and
\* deductible_paid unchanged and the loop goes on; the services after it are
\* still processed, so that the finished result reports every priced service.
C15_MissingPriceCostsNothing ==
    /\ [][ AtService(idx) /\ usage_profile[idx].quantity > 0 /\ MarketCost(idx) <= 0 =>
              /\ usage_breakdown' = usage_breakdown
              /\ deductible_remaining' = deductible_remaining
              /\ deductible_paid' = deductible_paid
              /\ LoopGoesOn
         ]_vars
    /\ [](pc = "idle" /\ results # << >> =>
            /\ LastResult.variable_cost_raw = Round2(SumCosts(usage_breakdown))
            /\ \A i \in 1..Len(usage_profile) :
                  Priced(i) <=> HasEntry(LastResult, usage_profile[i].key))

\* a result of a profile whose first service has no price and whose second
\* service was charged
C15_Witness ==
    /\ pc = "idle" /\ results # << >>
    /\ Len(usage_profile) = 2
    /\ usage_profile[1].quantity > 0 /\ MarketCost(1) <= 0
    /\ Priced(2) /\ EntryCost(LastResult, usage_profile[2].key) > 0

-----------------------------------------------------------------------------
(* C16 *)

\* the call returned 0 and left the deductible state as it was
ReturnedNothing ==
    /\ ret = 0
    /\ deductible_remaining = call.d_before
    /\ deductible_paid = call.p_before

\* the rule is a non-empty dict without the key "type"
NoTypeTag(rule) == DOMAIN rule # {} /\ "type" \notin DOMAIN rule

\* the rule has a type tag that is neither copay nor coinsurance
OtherType(rule) ==
    /\ "type" \in DOMAIN rule
    /\ Lower(rule["type"]) \notin { "copay", "coinsurance" }

\* C16 as stated: for every rule whose type tag is neither copay nor
\* coinsurance, a rule carrying no type tag included, apply_benefit_rule
\* returns 0 and leaves deductible_remaining and deductible_paid unchanged.
C16_OtherTypeCostsNothing ==
    call.op = "apply" /\ (OtherType(call.rule) \/ NoTypeTag(call.rule))
        => ReturnedNothing

\* C16 amended: a rule whose type tag is present and is neither copay nor
\* coinsurance costs 0 and leaves the deductible state unchanged; a rule
\* carrying no type tag is applied as a copay: at a positive price and
\* quantity it costs value * quantity, the deductible state unchanged.
C16_TaggedOtherTypeCostsNothing ==
    /\ call.op = "apply" /\ OtherType(call.rule) => ReturnedNothing
    /\ call.op = "apply" /\ NoTypeTag(call.rule)
       /\ call.market_cost > 0 /\ call.quantity > 0
        => /\ ret = Get(call.rule, "value", 0) * call.quantity
           /\ deductible_remaining = call.d_before
           /\ deductible_paid = call.p_before

\* a rule tagged with another type was applied to a priced service while some
\* deductible was left
C16_Witness ==
    /\ call.op = "apply"
    /\ OtherType(call.rule)
    /\ call.market_cost > 0 /\ call.quantity > 0
    /\ call.d_before > 0
    /\ ret = 0

-----------------------------------------------------------------------------
(* C17, C18, C19 *)

\* the rows of plans_df that have every required field and whose
\* calculation does not raise
Computable ==
    { i \in 1..Len(call.plans_df) :
        /\ \A f \in { "plan_name", "biweekly_premium", "annual_deductible", "oop_max" } :
              f \in DOMAIN call.plans_df[i]
        /\ ~Raises(usage_profile, standard_costs, call.plans_df[i]) }

\* what a calculator built for row i alone returns
Alone(i) ==
    calculate_total_cost(usage_profile, standard_costs, call.plans_df[i],
                         Get(call.plans_df[i], "annual_deductible", 0), 0)

RowsOf(i) == { k \in 1..Len(ret) : ret[k].plan_code = i }

\* C17: calculate_all_plans visits every plan and completes: while it has not
\* returned it is at a plan of the frame, or past the last one with a sorted
\* table to return, and each step either moves to the next plan or returns,
\* so it returns after one step per plan.  A plan
\* whose calculation raises or that lacks plan_name, biweekly_premium,
\* annual_deductible or oop_max has no row in the result; every other plan
\* has exactly one row, with the plan's own data and the costs a calculator
\* computes for that plan alone; processing a plan never changes or removes
\* a row already collected.
C17_BatchIsolation ==
    /\ [](pc = "batch" =>
            /\ idx \in 1..(Len(call.plans_df) + 1)
            /\ idx > Len(call.plans_df) /\ results # << >>
                  => sort_values(results) # {})
    /\ [](pc = "returned" =>
            /\ idx = Len(call.plans_df) + 1
            /\ Len(ret) = Cardinality(Computable)
            /\ \A i \in 1..Len(call.plans_df) :
                  IF i \in Computable
                  THEN /\ Cardinality(RowsOf(i)) = 1
                       /\ \A k \in RowsOf(i) :
                             /\ ret[k].plan_name = call.plans_df[i].plan_name
                             /\ ret[k].total_annual_cost = Alone(i).total_annual_cost
                             /\ ret[k].premium_cost_annual = Alone(i).premium_cost
                             /\ ret[k].medical_drug_spend = Alone(i).medical_drug_spend
                             /\ ret[k].deductible_paid = Alone(i).deductible_paid
                             /\ ret[k].variable_cost_raw = Alone(i).variable_cost_raw
                             /\ ret[k].cost_columns = Alone(i).usage_breakdown
                  ELSE RowsOf(i) = {})
    /\ [][ pc = "batch" =>
              \/ /\ pc' = "batch"
                 /\ idx' = idx + 1
                 /\ Len(results') >= Len(results)
                 /\ SubSeq(results', 1, Len(results)) = results
              \/ /\ pc' = "returned"
                 /\ idx = Len(call.plans_df) + 1
                 /\ results' = results ]_vars

\* a returned table with a row for a plan that comes after a plan that
\* raised and after a plan with a missing field
C17_Witness ==
    /\ pc = "returned"
    /\ \E i, j, k \in 1..Len(call.plans_df) :
          /\ i < k /\ j < k
          /\ Raises(usage_profile, standard_costs, call.plans_df[i])
          /\ "oop_max" \notin DOMAIN call.plans_df[j]
          /\ RowsOf(k) # {}

\* C18: the returned table is ordered by total_annual_cost ascending and its
\* rank column is 1, 2, ..., n in row order.
C18_SortedAndRanked ==
    pc = "returned" =>
        /\ \A k \in 1..Len(ret) : ret[k].rank = k
        /\ \A k, m \in 1..Len(ret) :
              ret[k].rank < ret[m].rank =>
                  ret[k].total_annual_cost <= ret[m].total_annual_cost

\* a returned table whose first row is a plan that came last in the input
C18_Witness ==
    /\ pc = "returned"
    /\ Len(ret) >= 2
    /\ ret[1].plan_code = Len(call.plans_df)
    /\ ret[1].total_annual_cost < ret[2].total_annual_cost

\* C19: plans with equal total_annual_cost keep their input order: of two
\* rows with the same total the earlier input plan has the lower rank.
C19_StableRanking ==
    pc = "returned" =>
        \A k, m \in 1..Len(ret) :
            /\ ret[k].total_annual_cost = ret[m].total_annual_cost
            /\ ret[k].plan_code < ret[m].plan_code
            => ret[k].rank < ret[m].rank

-----------------------------------------------------------------------------
(* C20 *)

NeedsFile == call.user_needs_file

\* some entry of the items holds a value that is not a JSON number or that
\* is negative
HoldsBadValue(items) ==
    \E i \in 1..Len(items) :
        \/ items[i].value.t # "number"
        \/ items[i].value.v < 0

\* usage_profile or standard_costs is missing or empty
MissingOrEmpty ==
    \/ NeedsFile.state # "json"
    \/ { "usage_profile", "standard_costs" } \ DOMAIN NeedsFile.config # {}
    \/ NeedsFile.config.usage_profile = << >>
    \/ NeedsFile.config.standard_costs = << >>

\* main has got past the loading of the configurations
PastLoading == pc \in { "configured", "scraped", "calculated" } \/ idx > 0

\* nothing was scraped or calculated and main returns 1
NothingRun ==
    /\ ~PastLoading
    /\ results = << >> /\ call.plans_df = << >>
    /\ pc = "returned" => ret = 1

\* C20 as stated: when usage_profile or standard_costs is missing, empty, or
\* holds a non-numeric or negative value, load_user_needs raises, so main
\* never gets past the loading: nothing is scraped, no CostCalculator is
\* constructed, and main returns 1.
C20_InvalidConfigStopsMain ==
    (\/ MissingOrEmpty
     \/ HoldsBadValue(NeedsFile.config.usage_profile)
     \/ HoldsBadValue(NeedsFile.config.standard_costs))
    => NothingRun

\* the entry is a number or a boolean that is not negative
GoodValue(value) ==
    /\ value.t \in { "number", "bool" }
    /\ value.t = "number" => value.v >= 0

\* C20 amended: the same, where the entry description of standard_costs is
\* not looked at (standard_costs is empty when it holds nothing else) and a
\* JSON boolean passes as a number.
C20_InvalidConfigStopsMainButDescription ==
    (\/ MissingOrEmpty
     \/ without_description(NeedsFile.config.standard_costs) = << >>
     \/ \E i \in 1..Len(NeedsFile.config.usage_profile) :
           ~GoodValue(NeedsFile.config.usage_profile[i].value)
     \/ \E i \in 1..Len(NeedsFile.config.standard_costs) :
           /\ NeedsFile.config.standard_costs[i].key # S_description
           /\ ~GoodValue(NeedsFile.config.standard_costs[i].value))
    => NothingRun

\* main has returned 1 on a file whose only fault is a negative price
C20_Witness ==
    /\ pc = "returned" /\ ret = 1
    /\ NeedsFile.state = "json"
    /\ DOMAIN NeedsFile.config = { "usage_profile", "standard_costs" }
    /\ NeedsFile.config.usage_profile # << >>
    /\ \A i \in 1..Len(NeedsFile.config.usage_profile) :
          GoodValue(NeedsFile.config.usage_profile[i].value)
    /\ \E i \in 1..Len(NeedsFile.config.standard_costs) :
          /\ NeedsFile.config.standard_costs[i].value.t = "number"
          /\ NeedsFile.config.standard_costs[i].value.v < 0

-----------------------------------------------------------------------------
(* C21 *)

\* what instance k returns when it runs alone
RunsAlone(k) ==
    calculate_total_cost(usage_profile, standard_costs, plan_data[k],
                         Get(plan_data[k], "annual_deductible", 0), 0)

\* C21: for two CostCalculator instances built for two plans, every
\* interleaving of their per-service steps gives each instance the CostResult
\* it returns when it runs alone, and no step of one instance changes the
\* other's deductible_remaining or deductible_paid.
C21_PlansIndependent ==
    /\ [](\A k \in Instances : results[k] # << >> => results[k][1] = RunsAlone(k))
    /\ [][\A k \in Instances : call'.instance = k =>
             \A other \in Instances \ { k } :
                 /\ deductible_remaining'[other] = deductible_remaining[other]
                 /\ deductible_paid'[other] = deductible_paid[other]]_vars

\* both instances are inside their loops, each having consumed deductible,
\* and not the same amount
C21_Witness ==
    /\ \A k \in Instances : pc[k] = "running" /\ idx[k] > 1 /\ deductible_paid[k] > 0
    /\ deductible_paid[1] # deductible_paid[2]

-----------------------------------------------------------------------------
(* C22 *)

\* C22: no step of a calculation (the reset, a processed service with its
\* rule resolution, the return) changes the usage profile, the price table
\* or the plan record; what a step of the loop writes of the calculator is
\* deductible_remaining and deductible_paid.
C22_InputsUnchanged ==
    [][/\ usage_profile' = usage_profile
       /\ standard_costs' = standard_costs
       /\ plan_data' = plan_data]_vars

\* a calculation has returned after it wrote the deductible state, the plan
\* still holding the deductible it was built with
C22_Witness ==
    /\ pc = "idle"
    /\ Len(results) = 1
    /\ deductible_paid > 0
    /\ deductible_remaining < Get(plan_data, "annual_deductible", 0)
    /\ LastResult.deductible_paid = deductible_paid

-----------------------------------------------------------------------------
(* C23 *)

\* the market total of service i: unit price times the quantity passed on
MarketTotal(i) ==
    MarketCost(i) * quantity_of(usage_profile[i].key, usage_profile[i].quantity)

\* the sum of the market totals of the priced coinsurance services before i
RECURSIVE EarlierCoinsurance(_)
EarlierCoinsurance(i) ==
    IF i <= 1 THEN 0
    ELSE EarlierCoinsurance(i - 1)
         + (IF Priced(i - 1) /\ ResolvesTo(i - 1, "coinsurance")
            THEN MarketTotal(i - 1) ELSE 0)

\* the service just processed, a coinsurance one
JustCharged == idx - 1

CoinsuranceCharged ==
    /\ pc = "running"
    /\ idx > 1
    /\ call.op = "apply"
    /\ HasType(call.rule, "coinsurance")

\* C23: the deductible portion charged to a coinsurance service is
\* min(its market total, max(0, annual_deductible - the market totals of the
\* priced coinsurance services earlier in the profile)); when it is positive,
\* every earlier coinsurance service was charged its whole market total.
C23_DeductibleInProfileOrder ==
    CoinsuranceCharged =>
        LET i == JustCharged
            left == Annual - EarlierCoinsurance(i)
            portion == call.d_before - deductible_remaining
        IN  /\ portion = Min(MarketTotal(i), IF left > 0 THEN left ELSE 0)
            /\ deductible_paid - call.p_before = portion
            /\ portion > 0 =>
                  \A j \in 1..(i - 1) :
                      (Priced(j) /\ ResolvesTo(j, "coinsurance")) =>
                          \E e \in 1..Len(usage_breakdown) :
                              /\ usage_breakdown[e].key = usage_profile[j].key
                              /\ usage_breakdown[e].cost = MarketTotal(j)

\* a second coinsurance service takes what the first left of the deductible
C23_Witness ==
    /\ CoinsuranceCharged
    /\ JustCharged > 1
    /\ Priced(1) /\ ResolvesTo(1, "coinsurance")
    /\ 0 < call.d_before
    /\ call.d_before < Annual
    /\ call.d_before - deductible_remaining > 0
    /\ call.d_before - deductible_remaining < MarketTotal(JustCharged)

-----------------------------------------------------------------------------
(* C24 *)

\* a service has just been handed to apply_benefit_rule
JustApplied == pc = "running" /\ idx > 1 /\ call.op = "apply"

\* the quantity passed on is `times` the profile quantity; a copay then
\* costs value * times * quantity, a coinsurance market total is
\* unit price * times * quantity
PassedOn(times) ==
    LET item == usage_profile[idx - 1] IN
    /\ call.quantity = times * item.quantity
    /\ HasType(call.rule, "copay") => ret = call.rule["value"] * times * item.quantity
    /\ HasType(call.rule, "coinsurance") =>
          call.market_cost * call.quantity = MarketCost(idx - 1) * times * item.quantity

\* C24 as stated: a usage key ending in _monthly has its quantity multiplied
\* by 12 before the rule is applied; every other usage key has its quantity
\* used unchanged.
C24_MonthlyTimesTwelve ==
    JustApplied =>
        IF EndsWith(usage_profile[idx - 1].key, S_sfx_monthly)
        THEN PassedOn(MonthsPerYear)
        ELSE PassedOn(1)

\* C24 amended: the quantity is multiplied by 12 when the usage key ends in
\* _monthly once its trailing "s" characters are stripped, and used unchanged
\* for every other key.
C24_MonthlyAfterStripTimesTwelve ==
    JustApplied =>
        IF EndsWith(RStrip(usage_profile[idx - 1].key, S_s), S_sfx_monthly)
        THEN PassedOn(MonthsPerYear)
        ELSE PassedOn(1)

\* a profile whose key ending in _monthlys was charged for twelve months,
\* after a per-visit service charged for its own quantity
C24_Witness ==
    /\ JustApplied
    /\ idx = 3
    /\ usage_profile[1].key = S_primary_care_visits
    /\ usage_profile[2].key = S_tier_1_generics_monthlys
    /\ call.quantity = 12 * usage_profile[2].quantity
    /\ ret > 0

-----------------------------------------------------------------------------
(* C25 *)

\* C25: for every max_retries that load_app_config accepts, fetch_page makes
\* at most max_retries requests, returns the parsed page at the first
\* successful request without a further attempt, raises when no request
\* succeeds, and never returns normally without a page.
C25_FetchReturnsPageOrRaises ==
    /\ Len(results) <= call.max_retries
    /\ \A i \in 1..Len(results) :
          results[i] = "ok" => (i = Len(results) /\ pc = "returned" /\ ret = "soup")
    /\ (pc # "fetching" /\ \A i \in 1..Len(results) : results[i] # "ok")
          => pc = "raised"
    /\ pc = "returned" => ret = "soup"

-----------------------------------------------------------------------------
(* C26 *)

\* the copays of the plan are not negative, its coinsurance rates within
\* 0% .. 100%
BenignRules ==
    \A k \in DOMAIN Rules :
        /\ HasType(Rules[k], "copay") => Rules[k]["value"] >= 0
        /\ HasType(Rules[k], "coinsurance") =>
              (Rules[k]["value"] >= 0 /\ Rules[k]["value"] <= 100)

\* what a fresh calculator returns when service i is used once more
WithOneMore(i) ==
    calculate_total_cost([usage_profile EXCEPT ![i].quantity = @ + 1],
                         standard_costs, plan_data, Annual, 0)

\* none of the three totals of the result more is below that of the result less
NoneLower(more, less) ==
    /\ more.variable_cost_raw >= less.variable_cost_raw
    /\ more.medical_drug_spend >= less.medical_drug_spend
    /\ more.total_annual_cost >= less.total_annual_cost

\* C26: for a plan with non-negative copays and coinsurance rates in [0, 1],
\* raising the quantity of any one service of the profile, everything else
\* and the order unchanged, lowers none of variable_cost_raw,
\* medical_drug_spend and total_annual_cost.
C26_MonotoneInUsage ==
    (pc = "idle" /\ results # << >> /\ BenignRules) =>
        \A i \in 1..Len(usage_profile) : NoneLower(WithOneMore(i), LastResult)

\* one more of the first service raises the total and lowers what a later
\* service costs
C26_Witness ==
    /\ pc = "idle" /\ results # << >> /\ BenignRules
    /\ Len(usage_profile) >= 2
    /\ HasEntry(LastResult, usage_profile[2].key)
    /\ HasEntry(WithOneMore(1), usage_profile[2].key)
    /\ EntryCost(WithOneMore(1), usage_profile[2].key)
          < EntryCost(LastResult, usage_profile[2].key)
    /\ WithOneMore(1).variable_cost_raw > LastResult.variable_cost_raw

-----------------------------------------------------------------------------
(* C27 *)

\* plan_benefits.keys() of the plan of a resolver run
CanonicalKeys == SelectSeq(RuleKeyList, LAMBDA k : k \in DOMAIN plan_data.benefit_rules)

\* C27: on every rule table whose keys are in canonical form, and for every
\* usage key, the rule _find_benefit_rule returns is the rule stored under the
\* key find_matching_benefit returns with fallback enabled, and the one
\* returns None exactly when the other does.
C27_ResolversAgree ==
    call.op = "find" =>
        LET matched == find_matching_benefit(call.usage_key, CanonicalKeys, TRUE)
        IN  /\ ret.found = matched.found
            /\ ret.found => ret.rule = plan_data.benefit_rules[matched.key]

-----------------------------------------------------------------------------
(* C28 *)

\* the keys of the first n services of the profile that have a quantity > 0
\* and a positive price under their cost key, in profile order
RECURSIVE PricedKeys(_)
PricedKeys(n) ==
    IF n = 0 THEN << >>
    ELSE IF Priced(n) THEN Append(PricedKeys(n - 1), usage_profile[n].key)
    ELSE PricedKeys(n - 1)

KeysOf(breakdown) == [j \in 1..Len(breakdown) |-> breakdown[j].key]

\* C28: the keys of usage_breakdown are the profile keys with quantity > 0
\* and a positive price under their cost key, in profile order (also while
\* the loop runs, for the services processed so far); a priced service with
\* no resolvable rule has an entry with cost 0.
C28_BreakdownKeys ==
    /\ pc = "running" => KeysOf(usage_breakdown) = PricedKeys(idx - 1)
    /\ \A r \in 1..Len(results) :
          /\ KeysOf(results[r].usage_breakdown) = PricedKeys(Len(usage_profile))
          /\ \A i \in 1..Len(usage_profile) :
                (Priced(i) /\ Falsy(ResolvedRule(i))) =>
                    EntryCost(results[r], usage_profile[i].key) = 0

\* a result with an entry of cost 0 for a priced service without a rule,
\* and no entry for another service, which has no price
C28_Witness ==
    /\ pc = "idle" /\ Len(results) = 1
    /\ \E i, j \in 1..Len(usage_profile) :
          /\ Priced(i) /\ Falsy(ResolvedRule(i))
          /\ HasEntry(LastResult, usage_profile[i].key)
          /\ usage_profile[j].quantity > 0
          /\ ~Priced(j)
          /\ ~HasEntry(LastResult, usage_profile[j].key)

-----------------------------------------------------------------------------
(* C29 *)

\* C29: for non-negative copays and coinsurance rates, the deductible_paid a
\* calculation reports never exceeds its variable_cost_raw.
C29_DeductiblePaidWithinRaw ==
    BenignRules =>
        \A r \in 1..Len(results) :
            results[r].deductible_paid <= results[r].variable_cost_raw

\* a result whose variable cost is all deductible, and one coinsurance
\* service after another consumed it
C29_Witness ==
    /\ results # << >>
    /\ BenignRules
    /\ LastResult.deductible_paid > 0
    /\ LastResult.deductible_paid = LastResult.variable_cost_raw
    /\ Len(LastResult.usage_breakdown) >= 2

-----------------------------------------------------------------------------
(* C30 *)

\* the rule table with every rule replaced by a tag of its key
KeyTagged == [k \in DOMAIN Rules |-> [type |-> "tag", value |-> k]]

\* a priced service has just gone through the resolution
JustResolved == pc = "running" /\ idx > 1 /\ Priced(idx - 1)

\* C30: which rule is resolved depends only on the keys of the rule table:
\* the rule returned is the one under the key that is chosen on the table
\* with all types erased; a non-empty rule under the exact usage key is
\* returned whatever its type, and when its type is neither copay nor
\* coinsurance the service is reported at 0 and the deductible left alone,
\* also when the plan has a usable fallback rule.
C30_ResolutionIgnoresType ==
    JustResolved =>
        LET usage_key == usage_profile[idx - 1].key
            chosen == find_benefit_rule(usage_key, KeyTagged)
        IN  /\ call.op = "apply" =>
                  (chosen.found /\ call.rule = Rules[chosen.rule.value])
            /\ (usage_key \in DOMAIN Rules /\ DOMAIN Rules[usage_key] # {}) =>
                  /\ call.op = "apply"
                  /\ call.rule = Rules[usage_key]
                  /\ (~HasType(call.rule, "copay") /\ ~HasType(call.rule, "coinsurance")) =>
                        /\ ret = 0
                        /\ usage_breakdown[Len(usage_breakdown)] =
                               [key |-> usage_key, cost |-> 0]
                        /\ deductible_remaining = call.d_before
                        /\ deductible_paid = call.p_before

\* speech therapy was reported at 0 under its own not_covered rule, the
\* plan having a coinsurance rule under therapy_services
C30_Witness ==
    /\ JustResolved
    /\ usage_profile[idx - 1].key = S_speech_therapy_visits
    /\ call.op = "apply"
    /\ call.rule = NotCovered
    /\ S_therapy_services \in DOMAIN Rules
    /\ HasType(Rules[S_therapy_services], "coinsurance")
    /\ ret = 0
    /\ Annual > 0

====
